---- MODULE Spec2Model ----
(***************************************************************************)
(* Model of gig-e/rockdb: the DTA lexer/parser and dedup engine of         *)
(* build_catalog.py and the entry locator, text mutators and serializer    *)
(* of dta_writer.py.                                                       *)
(*                                                                         *)
(* Text is a sequence of one-character strings.  Offsets are 0-based as in *)
(* Python: At(t, i) is t[i], Slice(t, a, b) is t[a:b].                     *)
(***************************************************************************)
EXTENDS Integers, Sequences, FiniteSets, TLC

VARIABLES
    \* ---- entry locator (find_song_entry_bounds) ----
    l_text,      \* text given to the locator
    l_key,       \* song key given to the locator
    l_pc,        \* "call" before the locator runs, "done" after
    l_result,    \* None or <<start, end>>
    l_true,      \* offset just past the entry's closing paren, by construction
    \* ---- text mutators (remove_songs_from_dta, patch_song_metadata,
    \*      restore_from_backup) ----
    present,     \* dta_path.exists()
    file,        \* current text of songs.dta (empty when the file is absent)
    backups,     \* timestamp -> text of songs.dta.backup.<timestamp>
    safety,      \* timestamp -> text of songs.dta.before_restore.<timestamp>
    dta_dir,     \* directory of songs.dta below dev_hdd0, as path parts
    clock,       \* datetime.now() in whole seconds
    faults,      \* I/O failures injected so far
    nops,        \* mutator calls made so far
    pc,          \* position of the running mutator, "idle" between calls
    op,          \* arguments and locals of the running mutator
    ret,         \* what the last call returned or raised
    last,        \* log of the last completed call: arguments, text before/after
    \* ---- dedup engine (build_catalog) ----
    extracted,   \* all_songs as extraction leaves it, input of the engine
    dedup,       \* what the engine computed from extracted
    rerun,       \* what the engine computed from the list it had kept
    d_pc,        \* "first" before the first run, "second" before the rerun
    \* ---- lexer, parser and serializer ----
    p_entries,   \* entries given to format_dta_entries, <<>> when text is given
    p_text,      \* text to tokenize: given, or written by the serializer
    p_tokens,    \* what tokenize returned
    p_result,    \* what parse_tokens or parse_top_level returned or raised
    p_pc,        \* "serialize", "text", "tokens", then "done" or "done_top"
    \* ---- request handlers of the server (Handler.do_POST, /api/delete) ----
    h_file,      \* text of the songs.dta the requests name
    h_catalog,   \* song keys in catalog.json
    h_pc,        \* position of each handler thread
    h_keys,      \* song_keys of each thread's request
    h_text,      \* text each thread's remove_songs_from_dta has read
    h_ret        \* what each thread's remove_songs_from_dta returned

lvars == <<l_text, l_key, l_pc, l_result, l_true>>

mvars == <<present, dta_dir, file, backups, safety, clock, faults, nops, pc, op, ret, last>>

dvars == <<extracted, dedup, rerun, d_pc>>

pvars == <<p_entries, p_text, p_tokens, p_result, p_pc>>

hvars == <<h_file, h_catalog, h_pc, h_keys, h_text, h_ret>>

vars == <<lvars, mvars, dvars, pvars, hvars>>

(***************************************************************************)
(* Characters and Python string helpers                                    *)
(***************************************************************************)
NL == "\n"
TAB == "\t"
SP == " "
LP == "("
RP == ")"
DQ == "\""
SQ == "'"
BS == "\\"

\* str.isspace() / regex \s on the characters the model uses
IsSpace(c) == c \in {SP, TAB, NL}

\* str.lower() / re.IGNORECASE folding on the letters the model uses
Lower(c) ==
    CASE c = "A" -> "a" [] c = "B" -> "b" [] c = "C" -> "c" [] c = "D" -> "d"
      [] c = "E" -> "e" [] c = "F" -> "f" [] c = "G" -> "g" [] c = "H" -> "h"
      [] c = "I" -> "i" [] c = "J" -> "j" [] c = "K" -> "k" [] c = "L" -> "l"
      [] c = "M" -> "m" [] c = "N" -> "n" [] c = "O" -> "o" [] c = "P" -> "p"
      [] c = "Q" -> "q" [] c = "R" -> "r" [] c = "S" -> "s" [] c = "T" -> "t"
      [] c = "U" -> "u" [] c = "V" -> "v" [] c = "W" -> "w" [] c = "X" -> "x"
      [] c = "Y" -> "y" [] c = "Z" -> "z"
      [] OTHER -> c

IsUpper(c) ==
    c \in {"A", "B", "C", "D", "E", "F", "G", "H", "I", "J", "K", "L", "M",
           "N", "O", "P", "Q", "R", "S", "T", "U", "V", "W", "X", "Y", "Z"}

\* characters int() reads as decimal digits
IsDecimal(c) == c \in {"0", "1", "2", "3", "4", "5", "6", "7", "8", "9"}

\* The characters of the model in code point order; Ord compares as Python does
CodeOrder ==
    <<TAB, NL, SP, DQ, SQ, LP, RP, "-", "/", "0", "1", "2", "3", "4", "5", "6",
      "7", "8", "9", ";", "A", "B", "C", "D", "E", "F", "G", "H", "I", "J", "K",
      "L", "M", "N", "O", "P", "Q", "R", "S", "T", "U", "V", "W", "X", "Y", "Z",
      BS, "_", "a", "b", "c", "d", "e", "f", "g", "h", "i", "j", "k", "l", "m",
      "n", "o", "p", "q", "r", "s", "t", "u", "v", "w", "x", "y", "z">>

Ord(c) == CHOOSE i \in 1..Len(CodeOrder) : CodeOrder[i] = c

\* s < t for two strings
RECURSIVE StrLess(_, _)
StrLess(s, t) ==
    IF t = <<>> THEN FALSE
    ELSE IF s = <<>> THEN TRUE
    ELSE IF Head(s) = Head(t) THEN StrLess(Tail(s), Tail(t))
    ELSE Ord(Head(s)) < Ord(Head(t))

LowerStr(s) == [i \in 1..Len(s) |-> Lower(s[i])]

\* str.strip()
RECURSIVE Strip(_)
Strip(s) ==
    IF s = <<>> THEN s
    ELSE IF IsSpace(Head(s)) THEN Strip(Tail(s))
    ELSE IF IsSpace(s[Len(s)]) THEN Strip(SubSeq(s, 1, Len(s) - 1))
    ELSE s

\* needle in hay
Contains(hay, needle) ==
    \E i \in 0..(Len(hay) - Len(needle)) :
        SubSeq(hay, i + 1, i + Len(needle)) = needle

At(t, i) == t[i + 1]

\* Python slice bounds are clamped to the sequence
Clamp(t, i) == IF i < 0 THEN 0 ELSE IF i > Len(t) THEN Len(t) ELSE i

Slice(t, a, b) == SubSeq(t, Clamp(t, a) + 1, Clamp(t, b))

Min(S) == CHOOSE x \in S : \A y \in S : x <= y

Max(S) == CHOOSE x \in S : \A y \in S : x >= y

None == <<>>

(***************************************************************************)
(* find_song_entry_bounds                                                  *)
(***************************************************************************)
\* The regex  \n\(\s*'?KEY'?  (re.IGNORECASE) matches with its start at p.
AnchorAt(text, p, key) ==
    /\ p + 1 < Len(text)
    /\ At(text, p) = NL
    /\ At(text, p + 1) = LP
    /\ \E k \in 0..(Len(text) - p - 2) :
         /\ \A j \in 0..(k - 1) : IsSpace(At(text, p + 2 + j))
         /\ \E q \in {0, 1} :
              /\ (q = 1 => (p + 2 + k < Len(text) /\ At(text, p + 2 + k) = SQ))
              /\ p + 2 + k + q + Len(key) <= Len(text)
              /\ \A j \in 0..(Len(key) - 1) :
                   Lower(At(text, p + 2 + k + q + j)) = Lower(key[j + 1])

\* the rightmost match in place of the leftmost
AnchorSearchLast(text, key) ==
    LET hits == {p \in 0..(Len(text) - 1) : AnchorAt(text, p, key)}
    IN  IF hits = {} THEN -1 ELSE Max(hits)

\* re.search: offset of the leftmost match, or -1
AnchorSearch(text, key) ==
    LET hits == {p \in 0..(Len(text) - 1) : AnchorAt(text, p, key)}
    IN  IF hits = {} THEN -1 ELSE Min(hits)

ScanInit == [paren_depth |-> 0, in_string |-> FALSE, escape_next |-> FALSE,
             found |-> FALSE]

\* One iteration of the scanning loop on character char.
ScanStepNoStringGuard(s, char) ==
    IF s.escape_next THEN [s EXCEPT !.escape_next = FALSE]
    ELSE IF char = BS THEN [s EXCEPT !.escape_next = TRUE]
    ELSE IF char = DQ THEN [s EXCEPT !.in_string = ~s.in_string]
    ELSE IF char = LP THEN [s EXCEPT !.paren_depth = s.paren_depth + 1]
    ELSE IF char = RP
         THEN [s EXCEPT !.paren_depth = s.paren_depth - 1,
                        !.found = (s.paren_depth - 1 = 0)]
    ELSE s

ScanStep(s, char) ==
    IF s.escape_next THEN [s EXCEPT !.escape_next = FALSE]
    ELSE IF char = BS THEN [s EXCEPT !.escape_next = TRUE]
    ELSE IF char = DQ THEN [s EXCEPT !.in_string = ~s.in_string]
    ELSE IF ~s.in_string
         THEN IF char = LP THEN [s EXCEPT !.paren_depth = s.paren_depth + 1]
              ELSE IF char = RP
                   THEN [s EXCEPT !.paren_depth = s.paren_depth - 1,
                                  !.found = (s.paren_depth - 1 = 0)]
              ELSE s
    ELSE s

\* Scanner state before the loop iteration at offset i (loop started at from).
RECURSIVE ScanState(_, _, _)
ScanState(text, from, i) ==
    IF i <= from THEN ScanInit
    ELSE ScanStep(ScanState(text, from, i - 1), At(text, i - 1))

\* Offset of the ')' at which the loop returns, or -1 when it runs off the end.
RECURSIVE ScanClose(_, _, _)
ScanClose(text, i, s) ==
    IF i >= Len(text) THEN -1
    ELSE LET s2 == ScanStep(s, At(text, i))
         IN  IF s2.found THEN i ELSE ScanClose(text, i + 1, s2)

\* line breaks skipped as well
RECURSIVE SkipBlanksAndBreaks(_, _)
SkipBlanksAndBreaks(text, e) ==
    IF e < Len(text) /\ At(text, e) \in {SP, TAB, NL}
    THEN SkipBlanksAndBreaks(text, e + 1)
    ELSE e

\* while end_pos < len(text) and text[end_pos] in ' \t': end_pos += 1
RECURSIVE SkipBlanks(_, _)
SkipBlanks(text, e) ==
    IF e < Len(text) /\ At(text, e) \in {SP, TAB} THEN SkipBlanks(text, e + 1)
    ELSE e

find_song_entry_bounds(text, song_key) ==
    LET start_pos == AnchorSearch(text, song_key)
    IN  IF start_pos = -1 THEN None
        ELSE LET close == ScanClose(text, start_pos + 1, ScanInit)
             IN  IF close = -1 THEN None
                 ELSE <<start_pos, SkipBlanks(text, close + 1)>>

(***************************************************************************)
(* Values: Python int, str and None                                        *)
(***************************************************************************)
IntV(n) == [kind |-> "int", val |-> n]

StrV(s) == [kind |-> "str", val |-> s]

NoneV == [kind |-> "none", val |-> 0]

DigitChar(d) ==
    CASE d = 0 -> "0" [] d = 1 -> "1" [] d = 2 -> "2" [] d = 3 -> "3"
      [] d = 4 -> "4" [] d = 5 -> "5" [] d = 6 -> "6" [] d = 7 -> "7"
      [] d = 8 -> "8" [] d = 9 -> "9"

RECURSIVE NatToStr(_)
NatToStr(n) ==
    IF n < 10 THEN <<DigitChar(n)>>
    ELSE NatToStr(n \div 10) \o <<DigitChar(n % 10)>>

\* str(n) for an int
IntToStr(n) == IF n < 0 THEN <<"-">> \o NatToStr(0 - n) ELSE NatToStr(n)

(***************************************************************************)
(* remove_songs_from_dta: the text computation                             *)
(***************************************************************************)
\* entries_to_remove: <<bounds, song_key>> for every key the locator finds
RECURSIVE EntriesToRemove(_, _)
EntriesToRemove(text, song_keys) ==
    IF song_keys = <<>> THEN <<>>
    ELSE LET bounds == find_song_entry_bounds(text, Head(song_keys))
             rest == EntriesToRemove(text, Tail(song_keys))
         IN  IF bounds # None THEN <<<<bounds, Head(song_keys)>>>> \o rest
             ELSE rest

\* every key reported as not found
NotFoundKeysAll(text, song_keys) == song_keys

NotFoundKeys(text, song_keys) ==
    SelectSeq(song_keys, LAMBDA k : find_song_entry_bounds(text, k) = None)

\* list.sort(key=start, reverse=True): descending, equal starts keep their order
RECURSIVE InsertDesc(_, _)
InsertDesc(sorted, e) ==
    IF sorted = <<>> THEN <<e>>
    ELSE IF Head(sorted)[1][1] >= e[1][1]
         THEN <<Head(sorted)>> \o InsertDesc(Tail(sorted), e)
         ELSE <<e>> \o sorted

RECURSIVE SortDesc(_)
SortDesc(es) ==
    IF es = <<>> THEN <<>>
    ELSE InsertDesc(SortDesc(SubSeq(es, 1, Len(es) - 1)), es[Len(es)])

\* text = text[:start] + text[end:] for each entry in turn
RECURSIVE Splice(_, _)
Splice(text, es) ==
    IF es = <<>> THEN text
    ELSE LET b == Head(es)[1]
         IN  Splice(Slice(text, 0, b[1]) \o Slice(text, b[2], Len(text)),
                    Tail(es))

RemoveEntries(text, song_keys) ==
    LET es == SortDesc(EntriesToRemove(text, song_keys))
    IN  [text |-> Splice(text, es),
         removed |-> [i \in 1..Len(es) |-> es[i][2]],
         not_found |-> NotFoundKeys(text, song_keys)]

(***************************************************************************)
(* patch_song_metadata: the text computation                               *)
(***************************************************************************)
\* str.replace('\\', '\\\\').replace('"', '\\"')
RECURSIVE EscapeStr(_)
EscapeStr(s) ==
    IF s = <<>> THEN <<>>
    ELSE (IF Head(s) = BS THEN <<BS, BS>>
          ELSE IF Head(s) = DQ THEN <<BS, DQ>>
          ELSE <<Head(s)>>) \o EscapeStr(Tail(s))

FormattedValue(v) ==
    IF v.kind = "int" THEN IntToStr(v.val)
    ELSE <<DQ>> \o EscapeStr(v.val) \o <<DQ>>

NewFieldText(field_name, v) ==
    <<LP, SQ>> \o field_name \o <<SQ, SP>> \o FormattedValue(v) \o <<RP>>

\* First offset >= i holding no whitespace (greedy \s*)
RECURSIVE SkipSpace(_, _)
SkipSpace(t, i) ==
    IF i < Len(t) /\ IsSpace(At(t, i)) THEN SkipSpace(t, i + 1) ELSE i

\* First offset >= i holding character c, or -1
RECURSIVE FindChar(_, _, _)
FindChar(t, i, c) ==
    IF i >= Len(t) THEN -1
    ELSE IF At(t, i) = c THEN i ELSE FindChar(t, i + 1, c)

\* Last offset holding ')' (str.rfind), or -1
LastParen(t) ==
    LET ps == {i \in 0..(Len(t) - 1) : At(t, i) = RP}
    IN  IF ps = {} THEN -1 ELSE Max(ps)

\* The value alternatives  "[^"]*" | '[^']*' | \S+  followed by \) , tried in
\* that order from offset v: the offset just past the match, or -1.
ValueMatchEnd(t, v) ==
    LET quoted(c) ==
            IF v < Len(t) /\ At(t, v) = c
            THEN LET w == FindChar(t, v + 1, c)
                 IN  IF w # -1 /\ w + 1 < Len(t) /\ At(t, w + 1) = RP
                     THEN w + 2 ELSE -1
            ELSE -1
        runEnd == CHOOSE e \in v..Len(t) :
                     /\ \A j \in v..(e - 1) : ~IsSpace(At(t, j))
                     /\ (e = Len(t) \/ IsSpace(At(t, e)))
        closers == {e \in (v + 1)..(runEnd - 1) : At(t, e) = RP}
    IN  IF quoted(DQ) # -1 THEN quoted(DQ)
        ELSE IF quoted(SQ) # -1 THEN quoted(SQ)
        ELSE IF closers # {} THEN Max(closers) + 1
        ELSE -1

\* The regex  \(\s*'?NAME'?\s+(?:"[^"]*"|'[^']*'|\S+)\)  (re.IGNORECASE)
\* matched at offset p: the offset just past the match, or -1.  Field names
\* hold neither whitespace nor quotes, so each greedy part has one way to match.
FieldMatchEnd(t, p, field_name) ==
    IF ~(p < Len(t) /\ At(t, p) = LP) THEN -1
    ELSE LET i1 == SkipSpace(t, p + 1)
             i2 == IF i1 < Len(t) /\ At(t, i1) = SQ THEN i1 + 1 ELSE i1
             i3 == i2 + Len(field_name)
             nameOk == /\ i3 <= Len(t)
                       /\ \A j \in 0..(Len(field_name) - 1) :
                            Lower(At(t, i2 + j)) = Lower(field_name[j + 1])
             i4 == IF i3 < Len(t) /\ At(t, i3) = SQ THEN i3 + 1 ELSE i3
             i5 == SkipSpace(t, i4)
         IN  IF nameOk /\ i5 > i4 THEN ValueMatchEnd(t, i5) ELSE -1

\* re template expansion of the replacement text: \\ becomes \, \" is kept
RECURSIVE ExpandTemplate(_)
ExpandTemplate(r) ==
    IF r = <<>> THEN <<>>
    ELSE IF Head(r) = BS /\ Len(r) >= 2
         THEN (IF r[2] = BS THEN <<BS>> ELSE <<BS, r[2]>>)
              \o ExpandTemplate(SubSeq(r, 3, Len(r)))
         ELSE <<Head(r)>> \o ExpandTemplate(Tail(r))

\* pattern.subn(new_field_text, entry_text, count=1)
SubnField(entry_text, field_name, new_field_text) ==
    LET hits == {p \in 0..(Len(entry_text) - 1) :
                    FieldMatchEnd(entry_text, p, field_name) # -1}
    IN  IF hits = {} THEN [text |-> entry_text, count |-> 0]
        ELSE LET p == Min(hits)
                 e == FieldMatchEnd(entry_text, p, field_name)
             IN  [text |-> Slice(entry_text, 0, p)
                           \o ExpandTemplate(new_field_text)
                           \o Slice(entry_text, e, Len(entry_text)),
                  count |-> 1]

\* One iteration of  for field_name, new_value in fields.items()
PatchOne(acc, field) ==
    LET field_name == field[1]
        new_value == field[2]
    IN  IF new_value.kind = "none" \/ new_value = StrV(<<>>) THEN acc
        ELSE LET new_field_text == NewFieldText(field_name, new_value)
                 sub == SubnField(acc.entry_text, field_name, new_field_text)
                 last_paren == LastParen(acc.entry_text)
             IN  IF sub.count > 0
                 THEN [acc EXCEPT !.entry_text = sub.text,
                                  !.patched = Append(acc.patched, field_name)]
                 ELSE IF last_paren >= 0
                 THEN [acc EXCEPT
                         !.entry_text =
                             Slice(acc.entry_text, 0, last_paren)
                             \o <<NL, SP, SP, SP>> \o new_field_text
                             \o Slice(acc.entry_text, last_paren,
                                      Len(acc.entry_text)),
                         !.added = Append(acc.added, field_name)]
                 ELSE acc

RECURSIVE PatchLoop(_, _)
PatchLoop(acc, fields) ==
    IF fields = <<>> THEN acc
    ELSE PatchLoop(PatchOne(acc, Head(fields)), Tail(fields))

\* new_text, patched and added for an entry located at bounds
PatchEntry(text, bounds, fields) ==
    LET acc == PatchLoop([entry_text |-> Slice(text, bounds[1], bounds[2]),
                          patched |-> <<>>, added |-> <<>>], fields)
    IN  [text |-> Slice(text, 0, bounds[1]) \o acc.entry_text
                  \o Slice(text, bounds[2], Len(text)),
         patched |-> acc.patched,
         added |-> acc.added]


(***************************************************************************)
(* build_catalog: pack classification and the three-pass dedup engine.     *)
(* A song is a record; song_id and the five merge fields hold tagged       *)
(* values (IntV or StrV), the other fields hold strings.  The engine       *)
(* mutates the kept dict of a group in place, so records are told apart by *)
(* their position in the sorted all_songs list and the dicts live in a     *)
(* store indexed by that position.                                         *)
(***************************************************************************)
PACK_PRIORITY(pack_type) ==
    CASE pack_type = "disc" -> 1
      [] pack_type = "export" -> 2
      [] pack_type = "dlc" -> 3
      [] pack_type = "custom" -> 4
      [] pack_type = "other" -> 5
      [] OTHER -> 99

\* re.match(r'^[A-Z]{1,2}\d{5,}', pack_name)
ContentIdName(pack_name) ==
    LET Digits(from) ==
            /\ from + 4 <= Len(pack_name)
            /\ \A i \in from..(from + 4) : IsDecimal(pack_name[i])
    IN  /\ Len(pack_name) >= 1
        /\ IsUpper(pack_name[1])
        /\ \/ Digits(2)
           \/ Len(pack_name) >= 2 /\ IsUpper(pack_name[2]) /\ Digits(3)

_dedup_priority(song) ==
    <<PACK_PRIORITY(song.pack_type),
      IF ContentIdName(song.pack_name) THEN 1 ELSE 0>>

\* a < b for two priority tuples
TupleLess(a, b) == a[1] < b[1] \/ (a[1] = b[1] /\ a[2] < b[2])

classify_pack(pack_name) ==
    LET low == LowerStr(pack_name)
    IN  IF pack_name = <<"B", "A", "S", "E">> THEN "disc"
        ELSE IF Contains(low, <<"c", "u", "s", "t", "o", "m">>) THEN "custom"
        ELSE IF Contains(low, <<"e", "x", "p", "o", "r", "t">>) THEN "export"
        ELSE IF \/ Contains(low, <<"d", "l", "c">>)
                \/ Contains(low, <<"p", "a", "c", "k">>)
                \/ Contains(low, <<"r", "b", "4", "-", "t", "o", "-", "r", "b", "2">>)
             THEN "dlc"
        ELSE IF ContentIdName(pack_name) THEN "dlc"
        ELSE "other"

\* parts.index(x) + 1, or 0 when x is not among the parts
PartIndex(parts, x) ==
    IF \E i \in 1..Len(parts) : parts[i] = x
    THEN Min({i \in 1..Len(parts) : parts[i] = x})
    ELSE 0

GAME == <<"g", "a", "m", "e">>

USRDIR == <<"U", "S", "R", "D", "I", "R">>

SONGS_DTA == <<"s", "o", "n", "g", "s", ".", "d", "t", "a">>

\* parts are the components of the path relative to dev_hdd0
derive_pack(parts) ==
    LET idx == PartIndex(parts, GAME)
        uidx == PartIndex(parts, USRDIR)
        title_id == IF idx > 0 /\ idx + 1 <= Len(parts) THEN parts[idx + 1] ELSE <<>>
        pack_name == IF uidx > 0 /\ uidx + 1 <= Len(parts)
                        /\ parts[uidx + 1] # SONGS_DTA
                     THEN parts[uidx + 1]
                     ELSE <<"B", "A", "S", "E">>
    IN  [title_id |-> title_id, pack_name |-> pack_name,
         pack_type |-> classify_pack(pack_name)]

\* Python truth of an int or str value
Truthy(v) == IF v.kind = "int" THEN v.val # 0 ELSE v.val # <<>>

_MERGE_FIELDS == <<"year", "album", "genre", "sub_genre", "decade">>

\* all_songs.sort(key=(artist, name)): stable, ascending
SortKeyLess(a, b) ==
    StrLess(a.artist, b.artist) \/ (a.artist = b.artist /\ StrLess(a.name, b.name))

InsertSorted(sorted, s) ==
    LET later == {i \in 1..Len(sorted) : SortKeyLess(s, sorted[i])}
        at == IF later = {} THEN Len(sorted) + 1 ELSE Min(later)
    IN  SubSeq(sorted, 1, at - 1) \o <<s>> \o SubSeq(sorted, at, Len(sorted))

RECURSIVE SortSongs(_)
SortSongs(songs) ==
    IF songs = <<>> THEN <<>>
    ELSE InsertSorted(SortSongs(SubSeq(songs, 1, Len(songs) - 1)), songs[Len(songs)])

\* max in place of min
MaxByPriority(store, songs) ==
    songs[Min({i \in 1..Len(songs) :
                 \A j \in 1..Len(songs) :
                     ~TupleLess(_dedup_priority(store[songs[i]]),
                                _dedup_priority(store[songs[j]]))})]

\* min(songs, key=_dedup_priority): the first member with the least tuple
MinByPriority(store, songs) ==
    songs[Min({i \in 1..Len(songs) :
                 \A j \in 1..Len(songs) :
                     ~TupleLess(_dedup_priority(store[songs[j]]),
                                _dedup_priority(store[songs[i]]))})]

\* the inner loop without its test of best's own value
RECURSIVE InheritFieldsOverwrite(_, _, _)
InheritFieldsOverwrite(best, song, fs) ==
    IF fs = <<>> THEN best
    ELSE LET f == Head(fs)
         IN  InheritFieldsOverwrite(IF Truthy(song[f])
                                    THEN [best EXCEPT ![f] = song[f]]
                                    ELSE best,
                                    song, Tail(fs))

\* the inner loop of _best_of: best takes from song what it lacks
RECURSIVE InheritFields(_, _, _)
InheritFields(best, song, fs) ==
    IF fs = <<>> THEN best
    ELSE LET f == Head(fs)
         IN  InheritFields(IF ~Truthy(best[f]) /\ Truthy(song[f])
                           THEN [best EXCEPT ![f] = song[f]]
                           ELSE best,
                           song, Tail(fs))

RECURSIVE InheritAll(_, _, _)
InheritAll(store, best, songs) ==
    IF songs = <<>> THEN store
    ELSE InheritAll(IF Head(songs) # best
                    THEN [store EXCEPT ![best] =
                              InheritFields(store[best], store[Head(songs)], _MERGE_FIELDS)]
                    ELSE store,
                    best, Tail(songs))

_best_of(store, songs) ==
    LET best == MinByPriority(store, songs)
    IN  [best |-> best, store |-> InheritAll(store, best, songs)]

\* kept_pack taken from the dropped song itself
MakeDroppedOwnPack(song, kept_pack) ==
    [song_key |-> song.song_key, name |-> song.name, artist |-> song.artist,
     source_file |-> song.source_file, pack_name |-> song.pack_name,
     kept_pack |-> song.pack_name]

_make_dropped(song, kept_pack) ==
    [song_key |-> song.song_key, name |-> song.name, artist |-> song.artist,
     source_file |-> song.source_file, pack_name |-> song.pack_name,
     kept_pack |-> kept_pack]

\* Grouping keys of the three passes; ok is FALSE for a song pass 1 skips
IdKey(song) ==
    IF song.song_id.kind = "int" /\ song.song_id.val > 0
    THEN [ok |-> TRUE, k |-> song.song_id.val]
    ELSE [ok |-> FALSE, k |-> 0]

SongKeyKey(song) == [ok |-> TRUE, k |-> song.song_key]

NO_META == <<"_", "_", "n", "o", "_", "m", "e", "t", "a", "_", "_">>

\* the metadata key taken from the fields as they are
MetaKeyRaw(song) ==
    [ok |-> TRUE,
     k |-> IF song.artist = <<>> \/ song.name = <<>>
           THEN <<NO_META, song.song_key, <<>>>>
           ELSE <<song.artist, song.name, song.album.val>>]

MetaKey(song) ==
    LET artist == LowerStr(Strip(song.artist))
        name == LowerStr(Strip(song.name))
        album == LowerStr(Strip(song.album.val))
    IN  [ok |-> TRUE,
         k |-> IF artist = <<>> \/ name = <<>>
               THEN <<NO_META, song.song_key, <<>>>>
               ELSE <<artist, name, album>>]

\* the grouping key of pass p
PassKey(p, song) ==
    CASE p = 1 -> IdKey(song)
      [] p = 2 -> SongKeyKey(song)
      [] OTHER -> MetaKey(song)

\* the members of list whose key is k, in list order
GroupOf(store, list, p, k) ==
    SelectSeq(list, LAMBDA i : PassKey(p, store[i]).ok /\ PassKey(p, store[i]).k = k)

\* the keys of a defaultdict in insertion order
RECURSIVE GroupKeys(_, _, _, _)
GroupKeys(store, list, p, seen) ==
    IF list = <<>> THEN seen
    ELSE LET key == PassKey(p, store[Head(list)])
         IN  GroupKeys(store, Tail(list), p,
                       IF key.ok /\ ~\E i \in 1..Len(seen) : seen[i] = key.k
                       THEN Append(seen, key.k) ELSE seen)

\* {k: _best_of(songs) for k, songs in groups.items() if len(songs) > 1}
\* as a sequence of [k, best] and the store after the merges
RECURSIVE BestOfGroups(_, _, _, _, _)
BestOfGroups(store, groups, ks, n, acc) ==
    IF n > Len(ks) THEN [store |-> store, best |-> acc]
    ELSE LET songs == groups[n]
             r == _best_of(store, songs)
         IN  IF Len(songs) > 1
             THEN BestOfGroups(r.store, groups, ks, n + 1,
                               Append(acc, [k |-> ks[n], best |-> r.best]))
             ELSE BestOfGroups(store, groups, ks, n + 1, acc)

\* the groups of a pass: their keys and, key by key, their members
GroupsFor(store, list, p, ks) ==
    [ks |-> ks, groups |-> [n \in 1..Len(ks) |-> GroupOf(store, list, p, ks[n])]]

BestOf(store, g) == BestOfGroups(store, g.groups, g.ks, 1, <<>>)

ResolveGroups(store, list, p) ==
    BestOf(store, GroupsFor(store, list, p, GroupKeys(store, list, p, <<>>)))

\* The second loop of a pass over list, r holding the bests and the store.
\* Passes 1 and 2 keep a song when it is its group's best (is), pass 3 when
\* it is the best of any group (id(song) in meta_best_ids).
WalkList(list, p, r) ==
    LET Has(k) == \E n \in 1..Len(r.best) : r.best[n].k = k
        BestFor(k) == r.best[CHOOSE n \in 1..Len(r.best) : r.best[n].k = k].best
        Bests == {r.best[n].best : n \in 1..Len(r.best)}
        Keeps(i) ==
            LET key == PassKey(p, r.store[i])
            IN  \/ ~key.ok
                \/ ~Has(key.k)
                \/ IF p = 3 THEN i \in Bests ELSE BestFor(key.k) = i
        Drops(i) == ~Keeps(i)
        Dropped(i) ==
            _make_dropped(r.store[i],
                          r.store[BestFor(PassKey(p, r.store[i]).k)].pack_name)
        gone == SelectSeq(list, Drops)
    IN  [store |-> r.store,
         kept |-> SelectSeq(list, Keeps),
         dropped |-> [n \in 1..Len(gone) |-> Dropped(gone[n])]]

\* One pass: group list by the pass's key, resolve the groups, walk the list
DedupPass(store, list, p) == WalkList(list, p, ResolveGroups(store, list, p))

EngineResult(sorted, p1, p2, p3) ==
    [sorted |-> sorted, store1 |-> p1.store, store2 |-> p2.store,
     store3 |-> p3.store,
     after_id |-> p1.kept, after_key |-> p2.kept, kept |-> p3.kept,
     dropped |-> p1.dropped \o p2.dropped \o p3.dropped,
     all_songs |-> [n \in 1..Len(p3.kept) |-> p3.store[p3.kept[n]]]]

\* the metadata pass run first
MetaPassFirst(sorted, p3) == DedupPass(p3.store, p3.kept, 1)

MetaPassSecond(sorted, p3, p1) ==
    EngineResult(sorted, p3, p1, DedupPass(p1.store, p1.kept, 2))

MetaPassThird(sorted, p3) == MetaPassSecond(sorted, p3, MetaPassFirst(sorted, p3))

DedupSortedMetaFirst(sorted) ==
    MetaPassThird(sorted, DedupPass(sorted, [i \in 1..Len(sorted) |-> i], 3))

DedupEngineMetaFirst(songs) == DedupSortedMetaFirst(SortSongs(songs))

\* Lines 270-344 of build_catalog: the passes, each on what the last one kept
Pass3(sorted, p1, p2) == EngineResult(sorted, p1, p2, DedupPass(p2.store, p2.kept, 3))

Pass2(sorted, p1) == Pass3(sorted, p1, DedupPass(p1.store, p1.kept, 2))

Pass1(sorted) == Pass2(sorted, DedupPass(sorted, [i \in 1..Len(sorted) |-> i], 1))

\* Lines 243-344 of build_catalog on the extracted list
DedupEngine(songs) == Pass1(SortSongs(songs))

(***************************************************************************)
(* build_catalog: tokenize, parse_tokens, parse_top_level, and the         *)
(* serializer format_dta_entries of dta_writer.  A token is a string; a    *)
(* parsed node is IntV(n), StrV(s) or ListV(<<nodes>>).                    *)
(***************************************************************************)
ListV(items) == [kind |-> "list", val |-> items]

\* A character str.isdigit() accepts and int() rejects, as U+00B2 is
SUP2 == "^2"

IsDigit(c) == IsDecimal(c) \/ c = SUP2

\* the quoted-string loop of tokenize, from offset i just past the quote
RECURSIVE QuotedToken(_, _, _)
QuotedToken(text, i, out) ==
    IF i >= Len(text) THEN [out |-> out, i |-> i]
    ELSE IF At(text, i) = BS /\ i + 1 < Len(text)
         THEN QuotedToken(text, i + 2, Append(out, At(text, i + 1)))
    ELSE IF At(text, i) = DQ THEN [out |-> out, i |-> i + 1]
    ELSE QuotedToken(text, i + 1, Append(out, At(text, i)))

\* the offset where the bare token starting at i ends
RECURSIVE BareEnd(_, _)
BareEnd(text, i) ==
    IF i < Len(text) /\ ~IsSpace(At(text, i)) /\ At(text, i) \notin {LP, RP}
    THEN BareEnd(text, i + 1)
    ELSE i

Unquoted(tok) ==
    IF Len(tok) > 1 /\ tok[1] = SQ /\ tok[Len(tok)] = SQ
    THEN SubSeq(tok, 2, Len(tok) - 1)
    ELSE tok

QuotedNext(q, tokens) == [i |-> q.i, tokens |-> Append(tokens, q.out)]

BareNext(text, i, e, tokens) == [i |-> e, tokens |-> Append(tokens, Unquoted(Slice(text, i, e)))]

\* one turn of the outer loop of tokenize at offset i
TokenStep(text, i, tokens) ==
    IF IsSpace(At(text, i)) THEN [i |-> i + 1, tokens |-> tokens]
    ELSE IF At(text, i) \in {LP, RP}
         THEN [i |-> i + 1, tokens |-> Append(tokens, <<At(text, i)>>)]
    ELSE IF At(text, i) = DQ THEN QuotedNext(QuotedToken(text, i + 1, <<>>), tokens)
    ELSE BareNext(text, i, BareEnd(text, i), tokens)

RECURSIVE TokenLoop(_, _)
TokenLoop(text, s) ==
    IF s.i >= Len(text) THEN s.tokens
    ELSE TokenLoop(text, TokenStep(text, s.i, s.tokens))

tokenize(text) == TokenLoop(text, [i |-> 0, tokens |-> <<>>])

\* str.isdigit()
IsDigitStr(tok) == tok # <<>> /\ \A n \in 1..Len(tok) : IsDigit(tok[n])

DigitVal(c) == CHOOSE d \in 0..9 : DigitChar(d) = c

\* int(tok) for a string of decimal digits
RECURSIVE StrToNat(_)
StrToNat(tok) ==
    IF tok = <<>> THEN 0
    ELSE 10 * StrToNat(SubSeq(tok, 1, Len(tok) - 1)) + DigitVal(tok[Len(tok)])

\* int(tok) raises ValueError unless every character is a decimal digit
IntRaises(tok) == \E n \in 1..Len(tok) : ~IsDecimal(tok[n])

\* parse() of parse_tokens at token offset i: the node read, the offset after
\* it, and whether int() raised
RECURSIVE ParseAt(_, _)
RECURSIVE ParseItems(_, _, _)
ParseItem(tokens, r, items) ==
    IF r.raised THEN r ELSE ParseItems(tokens, r.i, Append(items, r.node))

ParseItems(tokens, i, items) ==
    IF i < Len(tokens) /\ At(tokens, i) # <<RP>>
    THEN ParseItem(tokens, ParseAt(tokens, i), items)
    ELSE [node |-> ListV(items), i |-> i + 1, raised |-> FALSE]

ParseAt(tokens, i) ==
    IF At(tokens, i) = <<LP>> THEN ParseItems(tokens, i + 1, <<>>)
    ELSE IF IsDigitStr(At(tokens, i))
         THEN IF IntRaises(At(tokens, i))
              THEN [node |-> NoneV, i |-> i + 1, raised |-> TRUE]
              ELSE [node |-> IntV(StrToNat(At(tokens, i))), i |-> i + 1, raised |-> FALSE]
    ELSE [node |-> StrV(At(tokens, i)), i |-> i + 1, raised |-> FALSE]

Returned(exprs) == [status |-> "ok", exprs |-> exprs, error |-> ""]

Raised(error) == [status |-> "raise", exprs |-> <<>>, error |-> error]

\* the outer loop of parse_tokens
RECURSIVE ParseLoop(_, _, _)
ParseExpr(tokens, r, exprs) ==
    IF r.raised THEN Raised("ValueError")
    ELSE ParseLoop(tokens, r.i, Append(exprs, r.node))

ParseLoop(tokens, i, exprs) ==
    IF i >= Len(tokens) THEN Returned(exprs)
    ELSE IF At(tokens, i) = <<LP>> THEN ParseExpr(tokens, ParseAt(tokens, i), exprs)
    ELSE ParseLoop(tokens, i + 1, exprs)

parse_tokens(tokens) == ParseLoop(tokens, 0, <<>>)

\* text.splitlines() for texts whose only line break is "\n"
RECURSIVE SplitLines(_, _, _)
SplitLines(text, lines, line) ==
    IF text = <<>> THEN IF line = <<>> THEN lines ELSE Append(lines, line)
    ELSE IF Head(text) = NL THEN SplitLines(Tail(text), Append(lines, line), <<>>)
    ELSE SplitLines(Tail(text), lines, Append(line, Head(text)))

\* line.split(';', 1)[0]
RECURSIVE BeforeSemicolon(_)
BeforeSemicolon(line) ==
    IF line = <<>> \/ Head(line) = ";" THEN <<>>
    ELSE <<Head(line)>> \o BeforeSemicolon(Tail(line))

RECURSIVE Join(_, _)
Join(parts, sep) ==
    IF parts = <<>> THEN <<>>
    ELSE IF Len(parts) = 1 THEN parts[1]
    ELSE parts[1] \o sep \o Join(Tail(parts), sep)

StripComments(lines) == [n \in 1..Len(lines) |-> BeforeSemicolon(lines[n])]

parse_top_level(text) ==
    parse_tokens(tokenize(Join(StripComments(SplitLines(text, <<>>, <<>>)), <<NL>>)))

\* get_field: the second item of the first child that is a non-empty list,
\* has the key as its first item and has more than one item; "" otherwise
RECURSIVE get_field(_, _)
get_field(entries, key) ==
    IF entries = <<>> THEN StrV(<<>>)
    ELSE IF /\ Head(entries).kind = "list"
            /\ Head(entries).val # <<>>
            /\ Head(entries).val[1].kind = "str"
            /\ Head(entries).val[1].val = key
            /\ Len(Head(entries).val) > 1
         THEN Head(entries).val[2]
         ELSE get_field(Tail(entries), key)

\* the first list child with the key as its first item decides, whether or
\* not it has a second item
RECURSIVE GetFieldFirstHead(_, _)
GetFieldFirstHead(entries, key) ==
    IF entries = <<>> THEN StrV(<<>>)
    ELSE IF /\ Head(entries).kind = "list"
            /\ Head(entries).val # <<>>
            /\ Head(entries).val[1].kind = "str"
            /\ Head(entries).val[1].val = key
         THEN IF Len(Head(entries).val) > 1 THEN Head(entries).val[2] ELSE StrV(<<>>)
         ELSE GetFieldFirstHead(Tail(entries), key)

get_field_int(entries, key) ==
    IF get_field(entries, key).kind = "int" THEN get_field(entries, key) ELSE StrV(<<>>)

\* format_value for a str
FormatStr(s) ==
    IF \E n \in 1..Len(s) : s[n] \in {SP, LP, RP, DQ, BS}
    THEN <<DQ>> \o EscapeStr(s) \o <<DQ>>
    ELSE s

\* the first line of a top-level entry
KeyLine(formatted_item) ==
    IF formatted_item # <<>> /\ formatted_item[1] = SQ
    THEN <<LP, SP, SP, SP>> \o formatted_item
    ELSE <<LP, SP, SP, SP, SQ>> \o formatted_item \o <<SQ>>

FieldLine(formatted_item) == <<SP, SP, SP>> \o formatted_item

EntryLines(items) ==
    [n \in 1..(Len(items) + 1) |->
        IF n = 1 THEN KeyLine(items[1])
        ELSE IF n <= Len(items) THEN FieldLine(items[n])
        ELSE <<RP>>]

RECURSIVE format_value(_, _)
FormatItems(val, indent) == [n \in 1..Len(val.val) |-> format_value(val.val[n], indent)]

format_value(val, indent) ==
    IF val.kind = "list"
    THEN IF val.val = <<>> THEN <<LP, RP>>
         ELSE IF indent = 0 THEN Join(EntryLines(FormatItems(val, indent + 3)), <<NL>>)
         ELSE <<LP>> \o Join(FormatItems(val, indent), <<SP>>) \o <<RP>>
    ELSE IF val.kind = "str" THEN FormatStr(val.val)
    ELSE IF val.kind = "int" THEN IntToStr(val.val)
    ELSE <<"N", "o", "n", "e">>

format_dta_entries(entries) ==
    Join([n \in 1..Len(entries) |-> format_value(entries[n], 0)], <<NL>>) \o <<NL>>

(***************************************************************************)
(* The mutators as processes: every file read and write is a step that may *)
(* fail.  A failed write_text leaves the file untouched or holding a       *)
(* prefix of what was being written (open() truncates before writing).     *)
(* A run is followed up to the end of the first call that meets an I/O     *)
(* failure: up to MaxFaults steps of that call fail.                       *)
(***************************************************************************)
MaxOps == 2

MaxFaults == 2

\* the game's USRDIR below dev_hdd0, where the disc's songs.dta lies
UsrDir == <<<<"g", "a", "m", "e">>, <<"T">>, <<"U", "S", "R", "D", "I", "R">>>>

\* a path below dev_hdd0 to songs.dta.backup.<stamp>
BackupPath(dir, stamp) == [dir |-> dir, stamp |-> stamp]

NoPath == BackupPath(<<>>, 0)

NoOp == [kind |-> "none", keys |-> <<>>, key |-> <<>>, fields |-> <<>>,
         text |-> <<>>, bounds |-> None, stamp |-> 0, path |-> NoPath]

NoRet == [status |-> "none", error |-> "", removed |-> <<>>,
          not_found |-> <<>>, patched |-> <<>>, added |-> <<>>,
          backup_path |-> 0]

NoLast == [kind |-> "none", keys |-> <<>>, key |-> <<>>, fields |-> <<>>,
           before |-> <<>>, after |-> <<>>, ok |-> FALSE, repeat |-> FALSE,
           path |-> NoPath]

MutIdle ==
    /\ present = TRUE
    /\ dta_dir = <<>>
    /\ file = <<>>
    /\ backups = <<>>
    /\ safety = <<>>
    /\ clock = 1
    /\ faults = 0
    /\ nops = 0
    /\ pc = "idle"
    /\ op = NoOp
    /\ ret = NoRet
    /\ last = NoLast

LocIdle ==
    /\ l_text = <<>>
    /\ l_key = <<>>
    /\ l_pc = "done"
    /\ l_result = None
    /\ l_true = 0

NoRun == [sorted |-> <<>>, store1 |-> <<>>, store2 |-> <<>>, store3 |-> <<>>,
          after_id |-> <<>>, after_key |-> <<>>, kept |-> <<>>,
          dropped |-> <<>>, all_songs |-> <<>>]

DedupIdle ==
    /\ extracted = <<>>
    /\ dedup = NoRun
    /\ rerun = NoRun
    /\ d_pc = "done"

NoResult == [status |-> "none", exprs |-> <<>>, error |-> ""]

ParseIdle ==
    /\ p_entries = <<>>
    /\ p_text = <<>>
    /\ p_tokens = <<>>
    /\ p_result = NoResult
    /\ p_pc = "idle"

HandlerIdle ==
    /\ h_file = <<>>
    /\ h_catalog = {}
    /\ h_pc = <<>>
    /\ h_keys = <<>>
    /\ h_text = <<>>
    /\ h_ret = <<>>

\* What a failed write_text(t) can leave in a file that held old
FailedWrite(old, t) == {old, Slice(t, 0, Len(t) \div 2)}

\* The log entry of a call that ends now, leaving the file as after
Logged(o, before, after, ok) ==
    [kind |-> o.kind, keys |-> o.keys, key |-> o.key, fields |-> o.fields,
     path |-> o.path,
     before |-> before, after |-> after, ok |-> ok,
     repeat |-> /\ o.kind = "patch"
                /\ last.kind = "patch"
                /\ last.ok
                /\ last.key = o.key
                /\ last.fields = o.fields]

MayFail == faults < MaxFaults

\* ---- remove_songs_from_dta ----
\* lines 103-110: the file is looked for and read
RemoveCall(song_keys) ==
    /\ pc = "idle"
    /\ nops < MaxOps
    /\ faults = 0
    /\ nops' = nops + 1
    /\ LET o == [NoOp EXCEPT !.kind = "remove", !.keys = song_keys,
                             !.text = file]
       IN  \/ /\ ~present
              /\ pc' = "idle"
              /\ op' = NoOp
              /\ ret' = [NoRet EXCEPT !.status = "raise",
                                      !.error = "FileNotFound"]
              /\ last' = Logged(o, file, file, FALSE)
              /\ UNCHANGED faults
           \/ /\ present
              /\ pc' = "rm_backup"
              /\ op' = o
              /\ UNCHANGED <<ret, last, faults>>
           \/ /\ present
              /\ MayFail
              /\ faults' = faults + 1
              /\ pc' = "idle"
              /\ op' = NoOp
              /\ ret' = [NoRet EXCEPT !.status = "raise", !.error = "ReadFailed"]
              /\ last' = Logged(o, file, file, FALSE)
    /\ UNCHANGED <<file, backups, clock, present, safety, dta_dir, lvars, dvars, pvars, hvars>>

\* lines 112-118: the backup is written; a failure propagates
RemoveBackupSwallow ==
    /\ pc = "rm_backup"
    /\ \/ /\ backups' = (clock :> op.text) @@ backups
          /\ UNCHANGED faults
       \/ /\ MayFail
          /\ faults' = faults + 1
          /\ \/ UNCHANGED backups
             \/ \E t \in FailedWrite(<<>>, op.text) :
                   backups' = (clock :> t) @@ backups
    /\ pc' = "rm_write"
    /\ op' = [op EXCEPT !.stamp = clock]
    /\ UNCHANGED <<ret, last, file, clock, nops, present, safety, dta_dir, lvars, dvars, pvars, hvars>>

RemoveBackup ==
    /\ pc = "rm_backup"
    /\ \/ /\ backups' = (clock :> op.text) @@ backups
          /\ pc' = "rm_write"
          /\ op' = [op EXCEPT !.stamp = clock]
          /\ UNCHANGED <<ret, last, faults>>
       \/ /\ MayFail
          /\ faults' = faults + 1
          /\ \/ UNCHANGED backups
             \/ \E t \in FailedWrite(<<>>, op.text) :
                   backups' = (clock :> t) @@ backups
          /\ pc' = "idle"
          /\ op' = NoOp
          /\ ret' = [NoRet EXCEPT !.status = "raise", !.error = "BackupFailed"]
          /\ last' = Logged(op, op.text, file, FALSE)
    /\ UNCHANGED <<file, clock, nops, present, safety, dta_dir, lvars, dvars, pvars, hvars>>

\* lines 120-143 and 153-157: the entries are spliced out and the file written
RemoveWrite ==
    /\ pc = "rm_write"
    /\ LET r == RemoveEntries(op.text, op.keys)
       IN  \/ /\ file' = r.text
              /\ pc' = "idle"
              /\ op' = NoOp
              /\ ret' = [NoRet EXCEPT !.status = "ok", !.removed = r.removed,
                                      !.not_found = r.not_found,
                                      !.backup_path = op.stamp]
              /\ last' = Logged(op, op.text, r.text, TRUE)
              /\ UNCHANGED faults
           \/ /\ MayFail
              /\ faults' = faults + 1
              /\ file' \in FailedWrite(file, r.text)
              /\ pc' = "rm_restore"
              /\ UNCHANGED <<op, ret, last>>
    /\ UNCHANGED <<backups, clock, nops, present, safety, dta_dir, lvars, dvars, pvars, hvars>>

\* lines 144-151: the backup is read and written back, errors are passed over,
\* and the write failure is raised
RemoveRestoreMasked ==
    /\ pc = "rm_restore"
    /\ \/ /\ file' = IF op.stamp \in DOMAIN backups THEN backups[op.stamp]
                      ELSE file
          /\ ret' = [NoRet EXCEPT !.status = "ok", !.backup_path = op.stamp]
          /\ UNCHANGED faults
       \/ /\ MayFail
          /\ op.stamp \in DOMAIN backups
          /\ faults' = faults + 1
          /\ file' \in FailedWrite(file, backups[op.stamp])
          /\ ret' = [NoRet EXCEPT !.status = "raise", !.error = "WriteFailed"]
    /\ pc' = "idle"
    /\ op' = NoOp
    /\ last' = Logged(op, op.text, file', FALSE)
    /\ UNCHANGED <<backups, clock, nops, present, safety, dta_dir, lvars, dvars, pvars, hvars>>

RemoveRestore ==
    /\ pc = "rm_restore"
    /\ \/ /\ file' = IF op.stamp \in DOMAIN backups THEN backups[op.stamp]
                      ELSE file
          /\ UNCHANGED faults
       \/ /\ MayFail
          /\ op.stamp \in DOMAIN backups
          /\ faults' = faults + 1
          /\ file' \in FailedWrite(file, backups[op.stamp])
    /\ pc' = "idle"
    /\ op' = NoOp
    /\ ret' = [NoRet EXCEPT !.status = "raise", !.error = "WriteFailed"]
    /\ last' = Logged(op, op.text, file', FALSE)
    /\ UNCHANGED <<backups, clock, nops, present, safety, dta_dir, lvars, dvars, pvars, hvars>>

\* ---- patch_song_metadata ----
\* lines 580-595: the file is looked for and read, and the entry located
\* the backup written before the entry is located
PatchCallBackupFirst(song_key, fields) ==
    /\ pc = "idle"
    /\ nops < MaxOps
    /\ faults = 0
    /\ nops' = nops + 1
    /\ LET bounds == find_song_entry_bounds(file, song_key)
           o == [NoOp EXCEPT !.kind = "patch", !.key = song_key,
                             !.fields = fields, !.text = file,
                             !.bounds = bounds]
       IN  \/ /\ ~present
              /\ pc' = "idle"
              /\ op' = NoOp
              /\ ret' = [NoRet EXCEPT !.status = "error",
                                      !.error = "FileNotFound"]
              /\ last' = Logged(o, file, file, FALSE)
              /\ UNCHANGED <<faults, backups>>
           \/ /\ present
              /\ bounds # None
              /\ pc' = "pt_backup"
              /\ op' = o
              /\ UNCHANGED <<ret, last, faults, backups>>
           \/ /\ present
              /\ bounds = None
              /\ pc' = "idle"
              /\ op' = NoOp
              /\ ret' = [NoRet EXCEPT !.status = "error", !.error = "NotFound"]
              /\ last' = Logged(o, file, file, FALSE)
              /\ backups' = (clock :> file) @@ backups
              /\ UNCHANGED faults
           \/ /\ present
              /\ MayFail
              /\ faults' = faults + 1
              /\ pc' = "idle"
              /\ op' = NoOp
              /\ ret' = [NoRet EXCEPT !.status = "error", !.error = "ReadFailed"]
              /\ last' = Logged(o, file, file, FALSE)
              /\ UNCHANGED backups
    /\ UNCHANGED <<file, clock, present, safety, dta_dir, lvars, dvars, pvars, hvars>>

PatchCall(song_key, fields) ==
    /\ pc = "idle"
    /\ nops < MaxOps
    /\ faults = 0
    /\ nops' = nops + 1
    /\ LET bounds == find_song_entry_bounds(file, song_key)
           o == [NoOp EXCEPT !.kind = "patch", !.key = song_key,
                             !.fields = fields, !.text = file,
                             !.bounds = bounds]
       IN  \/ /\ ~present
              /\ pc' = "idle"
              /\ op' = NoOp
              /\ ret' = [NoRet EXCEPT !.status = "error",
                                      !.error = "FileNotFound"]
              /\ last' = Logged(o, file, file, FALSE)
              /\ UNCHANGED faults
           \/ /\ present
              /\ bounds # None
              /\ pc' = "pt_backup"
              /\ op' = o
              /\ UNCHANGED <<ret, last, faults>>
           \/ /\ present
              /\ bounds = None
              /\ pc' = "idle"
              /\ op' = NoOp
              /\ ret' = [NoRet EXCEPT !.status = "error", !.error = "NotFound"]
              /\ last' = Logged(o, file, file, FALSE)
              /\ UNCHANGED faults
           \/ /\ present
              /\ MayFail
              /\ faults' = faults + 1
              /\ pc' = "idle"
              /\ op' = NoOp
              /\ ret' = [NoRet EXCEPT !.status = "error", !.error = "ReadFailed"]
              /\ last' = Logged(o, file, file, FALSE)
    /\ UNCHANGED <<file, backups, clock, present, safety, dta_dir, lvars, dvars, pvars, hvars>>

\* lines 597-604: the backup is written; a failure is returned
PatchBackup ==
    /\ pc = "pt_backup"
    /\ \/ /\ backups' = (clock :> op.text) @@ backups
          /\ pc' = "pt_write"
          /\ op' = [op EXCEPT !.stamp = clock]
          /\ UNCHANGED <<ret, last, faults>>
       \/ /\ MayFail
          /\ faults' = faults + 1
          /\ \/ UNCHANGED backups
             \/ \E t \in FailedWrite(<<>>, op.text) :
                   backups' = (clock :> t) @@ backups
          /\ pc' = "idle"
          /\ op' = NoOp
          /\ ret' = [NoRet EXCEPT !.status = "error", !.error = "BackupFailed"]
          /\ last' = Logged(op, op.text, file, FALSE)
    /\ UNCHANGED <<file, clock, nops, present, safety, dta_dir, lvars, dvars, pvars, hvars>>

\* lines 606-645 and 655-660: the fields are patched and the file written
PatchWrite ==
    /\ pc = "pt_write"
    /\ LET r == PatchEntry(op.text, op.bounds, op.fields)
       IN  \/ /\ file' = r.text
              /\ pc' = "idle"
              /\ op' = NoOp
              /\ ret' = [NoRet EXCEPT !.status = "ok", !.patched = r.patched,
                                      !.added = r.added,
                                      !.backup_path = op.stamp]
              /\ last' = Logged(op, op.text, r.text, TRUE)
              /\ UNCHANGED faults
           \/ /\ MayFail
              /\ faults' = faults + 1
              /\ file' \in FailedWrite(file, r.text)
              /\ pc' = "pt_restore"
              /\ UNCHANGED <<op, ret, last>>
    /\ UNCHANGED <<backups, clock, nops, present, safety, dta_dir, lvars, dvars, pvars, hvars>>

\* lines 646-653: the backup is read, the text read earlier is written back,
\* errors are passed over, and the write failure is returned
PatchRestore ==
    /\ pc = "pt_restore"
    /\ \/ /\ file' = IF op.stamp \in DOMAIN backups THEN op.text ELSE file
          /\ UNCHANGED faults
       \/ /\ MayFail
          /\ faults' = faults + 1
          /\ file' \in FailedWrite(file, op.text)
    /\ pc' = "idle"
    /\ op' = NoOp
    /\ ret' = [NoRet EXCEPT !.status = "error", !.error = "WriteFailed",
                            !.backup_path = op.stamp]
    /\ last' = Logged(op, op.text, file', FALSE)
    /\ UNCHANGED <<backups, clock, nops, present, safety, dta_dir, lvars, dvars, pvars, hvars>>

\* A second passes.  The clock is read only when a backup is named, so the
\* seconds passing inside a call are counted as passing before it, and only
\* whether two calls fall in the same second matters: one tick between two
\* calls stands for any number of them.
Tick ==
    /\ pc = "idle"
    /\ clock <= nops
    /\ clock' = clock + 1
    /\ UNCHANGED <<file, backups, faults, nops, pc, op, ret, last, present, safety, dta_dir, lvars, dvars, pvars, hvars>>

\* ---- restore_from_backup with backup_type "dta" ----
\* lines 393-400: dev_hdd0_path / backup_path is looked for
RestoreCall(backup_path) ==
    /\ pc = "idle"
    /\ nops < MaxOps
    /\ faults = 0
    /\ nops' = nops + 1
    /\ LET o == [NoOp EXCEPT !.kind = "restore", !.path = backup_path,
                             !.stamp = backup_path.stamp, !.text = file]
           exists == backup_path.dir = dta_dir /\ backup_path.stamp \in DOMAIN backups
       IN  \/ /\ ~exists
              /\ pc' = "idle"
              /\ op' = NoOp
              /\ ret' = [NoRet EXCEPT !.status = "error",
                                      !.error = "BackupNotFound"]
              /\ last' = Logged(o, file, file, FALSE)
           \/ /\ exists
              /\ pc' = "rs_rename"
              /\ op' = o
              /\ UNCHANGED <<ret, last>>
    /\ UNCHANGED <<file, backups, clock, faults, present, safety, dta_dir, lvars, dvars, pvars, hvars>>

\* lines 407-410: songs.dta, when it exists, is renamed to
\* songs.dta.before_restore.<timestamp>; an exception is returned as an error
RestoreRename ==
    /\ pc = "rs_rename"
    /\ \/ /\ present
          /\ safety' = (clock :> file) @@ safety
          /\ present' = FALSE
          /\ file' = <<>>
          /\ pc' = "rs_copy"
          /\ UNCHANGED <<op, ret, last, faults>>
       \/ /\ ~present
          /\ pc' = "rs_copy"
          /\ UNCHANGED <<safety, present, file, op, ret, last, faults>>
       \/ /\ present
          /\ MayFail
          /\ faults' = faults + 1
          /\ pc' = "idle"
          /\ op' = NoOp
          /\ ret' = [NoRet EXCEPT !.status = "error", !.error = "RestoreFailed"]
          /\ last' = Logged(op, op.text, file, FALSE)
          /\ UNCHANGED <<safety, present, file>>
    /\ UNCHANGED <<backups, clock, nops, dta_dir, lvars, dvars, pvars, hvars>>

\* lines 413-421: shutil.copy2 copies the backup to songs.dta; an exception
\* is returned as an error and may leave no file or part of one
RestoreCopy ==
    /\ pc = "rs_copy"
    /\ \/ /\ file' = backups[op.stamp]
          /\ present' = TRUE
          /\ pc' = "idle"
          /\ op' = NoOp
          /\ ret' = [NoRet EXCEPT !.status = "ok", !.backup_path = op.stamp]
          /\ last' = Logged(op, op.text, backups[op.stamp], TRUE)
          /\ UNCHANGED faults
       \/ /\ MayFail
          /\ faults' = faults + 1
          /\ \/ UNCHANGED <<file, present>>
             \/ /\ file' = Slice(backups[op.stamp], 0, Len(backups[op.stamp]) \div 2)
                /\ present' = TRUE
          /\ pc' = "idle"
          /\ op' = NoOp
          /\ ret' = [NoRet EXCEPT !.status = "error", !.error = "RestoreFailed"]
          /\ last' = Logged(op, op.text, file', FALSE)
    /\ UNCHANGED <<backups, safety, clock, nops, dta_dir, lvars, dvars, pvars, hvars>>

\* ---- inputs ----
EntryA == <<NL, LP, "a", SP, LP, "n", SP, "o", RP, RP>>

EntryAOwnLine == <<NL, LP, SQ, "a", SQ, NL, SP, LP, "n", SP, DQ, "o", RP, DQ, RP, NL, RP>>

EntryAB == <<NL, LP, "a", "b", SP, LP, "y", SP, "5", RP, NL, RP>>

EntryB == <<NL, LP, "b", RP>>

Header == <<";", "h">>

FileTexts ==
    { Header \o EntryA \o EntryB,
      Header \o EntryAOwnLine \o EntryB \o <<NL>>,
      Header \o EntryAB \o EntryA }

KeyLists ==
    { <<<<"a">>>>,
      <<<<"a">>, <<"b">>>>, <<<<"b">>, <<"a">>>>,
      <<<<"a">>, <<"a">>>>, <<<<"a">>, <<"a", "b">>>>,
      <<<<"z">>, <<"A">>>> }

PatchCalls ==
    { <<<<"a">>, << <<<<"n">>, IntV(7)>> >> >>,
      <<<<"a">>, << <<<<"n">>, StrV(<<"v", SP, "w">>)>> >> >>,
      <<<<"a">>, << <<<<"y">>, IntV(7)>> >> >>,
      <<<<"a">>, << <<<<"y">>, StrV(<<BS>>)>> >> >>,
      <<<<"a">>, << <<<<"n">>, StrV(<<>>)>>, <<<<"y">>, IntV(7)>> >> >>,
      <<<<"a">>, << <<<<"y">>, StrV(<<"v">>)>>, <<<<"n">>, StrV(<<"v">>)>> >> >>,
      <<<<"z">>, << <<<<"n">>, IntV(7)>> >> >> }

Init ==
    /\ LocIdle
    /\ DedupIdle
    /\ ParseIdle
    /\ HandlerIdle
    /\ present \in BOOLEAN
    /\ dta_dir = UsrDir
    /\ file \in (IF present THEN FileTexts ELSE {<<>>})
    /\ backups = <<>>
    /\ safety = <<>>
    /\ clock = 1
    /\ faults = 0
    /\ nops = 0
    /\ pc = "idle"
    /\ op = NoOp
    /\ ret = NoRet
    /\ last = NoLast

Next ==
    \/ \E ks \in KeyLists : RemoveCall(ks)
    \/ RemoveBackup
    \/ RemoveWrite
    \/ RemoveRestore
    \/ \E c \in PatchCalls : PatchCall(c[1], c[2])
    \/ PatchBackup
    \/ PatchWrite
    \/ PatchRestore
    \/ Tick

Spec == Init /\ [][Next]_vars

\* removals and restores of one songs.dta, which lies in dev_hdd0 itself or
\* in the game's USRDIR below it
Stamps == 1..(MaxOps + 1)

BackupPaths == {BackupPath(dir, stamp) : dir \in {<<>>, UsrDir}, stamp \in Stamps}

RestoreInit ==
    /\ LocIdle
    /\ DedupIdle
    /\ ParseIdle
    /\ HandlerIdle
    /\ present = TRUE
    /\ dta_dir \in {<<>>, UsrDir}
    /\ file \in FileTexts
    /\ backups = <<>>
    /\ safety = <<>>
    /\ clock = 1
    /\ faults = 0
    /\ nops = 0
    /\ pc = "idle"
    /\ op = NoOp
    /\ ret = NoRet
    /\ last = NoLast

RestoreNext ==
    \/ \E ks \in KeyLists : RemoveCall(ks)
    \/ RemoveBackup
    \/ RemoveWrite
    \/ RemoveRestore
    \/ \E backup_path \in BackupPaths : RestoreCall(backup_path)
    \/ RestoreRename
    \/ RestoreCopy
    \/ Tick

SpecRestore == RestoreInit /\ [][RestoreNext]_vars

(***************************************************************************)
(* Claims about the mutators                                               *)
(***************************************************************************)
\* The located spans of the keys, against text
LocatedSpans(text, keys) ==
    {find_song_entry_bounds(text, keys[i]) : i \in 1..Len(keys)} \ {None}

\* text with every character that lies inside a located span left out
Excised(text, keys) ==
    LET spans == LocatedSpans(text, keys)
        idx == SelectSeq([i \in 1..Len(text) |-> i - 1],
                         LAMBDA i : \A b \in spans : ~(b[1] <= i /\ i < b[2]))
    IN  [k \in 1..Len(idx) |-> At(text, idx[k])]

IOErrors == {"ReadFailed", "BackupFailed", "WriteFailed"}

\* C1: after a successful remove the file is the original text with exactly
\* the located spans of the keys excised and every other character kept, and
\* every ordering of the key list gives that same text.
C1_RemoveExcisesExactly ==
    (pc = "idle" /\ last.kind = "remove" /\ last.ok) =>
        /\ last.after = Excised(last.before, last.keys)
        /\ \A p \in Permutations(1..Len(last.keys)) :
              RemoveEntries(last.before,
                            [i \in 1..Len(last.keys) |-> last.keys[p[i]]]).text
                  = last.after

\* two places of the key list hold one key, or keys whose located spans are
\* the same or overlap
Overlapping(text, keys) ==
    \E i, j \in 1..Len(keys) :
        /\ i < j
        /\ \/ keys[i] = keys[j]
           \/ /\ find_song_entry_bounds(text, keys[i]) # None
              /\ find_song_entry_bounds(text, keys[j]) # None
              /\ find_song_entry_bounds(text, keys[i])[1] < find_song_entry_bounds(text, keys[j])[2]
              /\ find_song_entry_bounds(text, keys[j])[1] < find_song_entry_bounds(text, keys[i])[2]

\* C24: when the key list of a successful remove repeats a key, or holds two
\* keys located at the same or overlapping spans, each located entry is
\* excised once and no character outside the located spans is removed.
C24_RepeatedKeysExciseOnce ==
    (pc = "idle" /\ last.kind = "remove" /\ last.ok /\ Overlapping(last.before, last.keys)) =>
        last.after = Excised(last.before, last.keys)

\* what holds of the code: with no repeated key and no overlapping spans the
\* located spans are excised and nothing else
DisjointKeysExcised ==
    (pc = "idle" /\ last.kind = "remove" /\ last.ok /\ ~Overlapping(last.before, last.keys)) =>
        last.after = Excised(last.before, last.keys)

\* C2: the target file changes only in a step taken after the backup named by
\* this call holds exactly the text the call read; a call whose backup write
\* failed ends in failure with the file as it was read.
C2_BackupBeforeWrite ==
    [][ /\ (file' # file =>
              /\ pc \in {"rm_write", "rm_restore", "pt_write", "pt_restore"}
              /\ op.stamp \in DOMAIN backups
              /\ backups[op.stamp] = op.text)
        /\ ((pc \in {"rm_backup", "pt_backup"} /\ ret'.error = "BackupFailed") =>
              /\ pc' = "idle"
              /\ ret'.status \in {"raise", "error"}
              /\ file' = op.text
              /\ file = op.text) ]_vars

\* A call that wrote the file, its backup holding the text it had read.
C2_Witness ==
    /\ pc = "idle"
    /\ ret.status = "ok"
    /\ last.after # last.before
    /\ file = last.after
    /\ ret.backup_path \in DOMAIN backups
    /\ backups[ret.backup_path] = last.before

\* C7: a patch repeated with the same key, field and value succeeds, replaces
\* the field it finds and leaves the text exactly as the first application
\* left it.
C7_PatchTwiceIdempotent ==
    (pc = "idle" /\ last.kind = "patch" /\ last.repeat
        /\ ret.error \notin IOErrors) =>
        /\ ret.status = "ok"
        /\ ret.added = <<>>
        /\ last.after = last.before

\* C11: when the final write of a remove or a patch fails, the call goes on to
\* the restore, which on success leaves the file holding the text the backup
\* holds; whether the restore succeeds or fails the call ends reporting the
\* write failure (raised by remove, returned by patch) and never success.
C11_WriteFailureSurfaced ==
    [][ /\ ((pc \in {"rm_write", "pt_write"} /\ faults' > faults) =>
              pc' = (IF pc = "rm_write" THEN "rm_restore" ELSE "pt_restore"))
        /\ (pc \in {"rm_restore", "pt_restore"} =>
              /\ pc' = "idle"
              /\ ret'.status = (IF pc = "rm_restore" THEN "raise" ELSE "error")
              /\ ret'.error = "WriteFailed"
              /\ ~last'.ok
              /\ (faults' = faults =>
                    /\ op.stamp \in DOMAIN backups
                    /\ file' = backups[op.stamp]
                    /\ file' = op.text)) ]_vars

\* A call whose final write failed and whose restore failed as well, leaving
\* the file different from the text the call had read.
C11_Witness ==
    /\ pc = "idle"
    /\ ret.error = "WriteFailed"
    /\ faults = 2
    /\ ~last.ok
    /\ last.after # last.before
    /\ file = last.after

\* C12: a restore that fails is reported: the result of a call whose restore
\* failed differs from the result of the same call with a successful restore.
C12_RestoreFailureReported ==
    [][ (pc \in {"rm_restore", "pt_restore"} /\ faults' > faults) =>
            ret' \notin
                {[NoRet EXCEPT !.status = "raise", !.error = "WriteFailed"],
                 [NoRet EXCEPT !.status = "error", !.error = "WriteFailed",
                               !.backup_path = op.stamp]} ]_vars

\* C13: a patch whose file is missing, or whose key the locator does not find
\* in the text read, ends at once with a not-found error, empty patched and
\* added lists and no backup path; it writes no backup and leaves the file
\* as it was.
C13_PatchNotFound ==
    [][ LET kind == IF pc' = "idle" THEN last'.kind ELSE op'.kind
            key == IF pc' = "idle" THEN last'.key ELSE op'.key
        IN  (/\ nops' = nops + 1
             /\ kind = "patch"
             /\ faults' = faults
             /\ (~present \/ find_song_entry_bounds(file, key) = None)) =>
                /\ pc' = "idle"
                /\ ret'.status = "error"
                /\ ret'.error = (IF present THEN "NotFound" ELSE "FileNotFound")
                /\ ret'.patched = <<>>
                /\ ret'.added = <<>>
                /\ ret'.backup_path = 0
                /\ backups' = backups
                /\ file' = file
                /\ present' = present ]_vars

\* A patch for a key the file does not hold, made after a successful call:
\* the one backup there is belongs to the earlier call.
C13_Witness ==
    /\ pc = "idle"
    /\ nops = 2
    /\ last.kind = "patch"
    /\ ret.error = "NotFound"
    /\ find_song_entry_bounds(file, last.key) = None
    /\ file = last.before
    /\ Cardinality(DOMAIN backups) = 1

\* how many times k occurs in the list keys
CountIn(keys, k) == Cardinality({i \in 1..Len(keys) : keys[i] = k})

\* C14: a successful remove reports every key given, as many times as it was
\* given, in exactly one of removed and not_found: in not_found when the
\* locator finds nothing for it in the text as read, in removed otherwise;
\* the two lists hold nothing else.
C14_KeysPartitioned ==
    (pc = "idle" /\ last.kind = "remove" /\ last.ok /\ ret.status = "ok") =>
        /\ Len(ret.removed) + Len(ret.not_found) = Len(last.keys)
        /\ \A i \in 1..Len(last.keys) :
              LET k == last.keys[i]
                  missing == find_song_entry_bounds(last.before, k) = None
              IN  /\ CountIn(ret.not_found, k) =
                        (IF missing THEN CountIn(last.keys, k) ELSE 0)
                  /\ CountIn(ret.removed, k) =
                        (IF missing THEN 0 ELSE CountIn(last.keys, k))

\* A remove given a key the text holds and a key it does not hold.
C14_Witness ==
    /\ pc = "idle"
    /\ last.kind = "remove"
    /\ last.ok
    /\ ret.status = "ok"
    /\ ret.removed # <<>>
    /\ ret.not_found # <<>>

\* C26: no step of a remove or patch overwrites a backup written earlier:
\* every backup stays in place with the text it was written with, so after
\* any sequence of mutations each of them still has the backup of the text
\* it read, also when two mutations happen within one clock second.
C26_BackupsNeverOverwritten ==
    [][ \A stamp \in DOMAIN backups :
            stamp \in DOMAIN backups' /\ backups'[stamp] = backups[stamp] ]_vars

\* a removal has succeeded and no other call was made since
RemovedOk == last.kind = "remove" /\ last.ok /\ ret.status = "ok"

\* the call that starts in this step, as op or, when it ends at once, as last
RestoreCalledWith(called, backup_path) ==
    called.kind = "restore" /\ called.path = backup_path

\* C30: when remove_songs_from_dta has succeeded and restore_from_backup is
\* then called with type dta and the backup_path that call returned, the
\* backup is found, and when the restore succeeds songs.dta exists and its
\* text is the text the file had just before the removal.
C30_RestoreReturnedBackup ==
    [][ /\ (/\ pc = "idle"
            /\ nops' = nops + 1
            /\ RemovedOk
            /\ RestoreCalledWith(IF pc' = "idle" THEN last' ELSE op',
                                 BackupPath(<<>>, ret.backup_path))) =>
               pc' = "rs_rename"
        /\ (/\ pc = "rs_copy"
            /\ ret'.status = "ok"
            /\ RemovedOk
            /\ op.path = BackupPath(<<>>, ret.backup_path)) =>
               (present' /\ file' = last.before) ]_vars

\* what holds of the code: a restore called with the path below dev_hdd0 of
\* the backup file the removal named finds it, and when it succeeds
\* songs.dta exists with the text it had just before the removal
RestoreByPathUndoesRemove ==
    [][ /\ (/\ pc = "idle"
            /\ nops' = nops + 1
            /\ RemovedOk
            /\ RestoreCalledWith(IF pc' = "idle" THEN last' ELSE op',
                                 BackupPath(dta_dir, ret.backup_path))) =>
               pc' = "rs_rename"
        /\ (/\ pc = "rs_copy"
            /\ ret'.status = "ok"
            /\ RemovedOk
            /\ op.path = BackupPath(dta_dir, ret.backup_path)) =>
               (present' /\ file' = last.before) ]_vars

\* a restore brought back the text a removal had changed, the text it found
\* being kept as songs.dta.before_restore.<timestamp>
RestoredByPath ==
    /\ pc = "idle"
    /\ nops = 2
    /\ last.kind = "restore"
    /\ last.ok
    /\ ret.status = "ok"
    /\ present
    /\ file = last.after
    /\ last.after # last.before
    /\ \E stamp \in DOMAIN safety : safety[stamp] = last.before

\* what holds of the code: a backup is overwritten only by a backup step
\* taken within the clock second the backup was written in
OverwrittenWithinSecond ==
    [][ \A stamp \in DOMAIN backups :
            /\ stamp \in DOMAIN backups'
            /\ backups'[stamp] # backups[stamp] =>
                  (stamp = clock /\ pc \in {"rm_backup", "pt_backup"}) ]_vars

(***************************************************************************)
(* Locator specification: one entry whose quoted value holds parentheses,  *)
(* escaped quotes and backslashes, followed by arbitrary trailing text.    *)
(***************************************************************************)
MaxUnits == 3

\* Pieces of a double-quoted string body: a plain character, or a backslash
\* followed by the character it escapes.
BodyUnits == {<<LP>>, <<RP>>, <<"x">>, <<SP>>, <<BS, DQ>>, <<BS, BS>>, <<BS, RP>>}

RECURSIVE Flatten(_)
Flatten(ss) == IF ss = <<>> THEN <<>> ELSE Head(ss) \o Flatten(Tail(ss))

Bodies == {Flatten(us) : us \in UNION {[1..n -> BodyUnits] : n \in 0..MaxUnits}}

Tails == {<<>>, <<SP, TAB, NL>>, <<NL, LP, "b", RP>>, <<RP, DQ, RP>>}

LocKeys == {<<"a">>, <<"A">>}

LocInit ==
    \E body \in Bodies, tail \in Tails, k \in LocKeys, q \in BOOLEAN :
        LET head == <<NL, LP>> \o (IF q THEN <<SQ, "a", SQ>> ELSE <<"a">>)
                    \o <<SP, LP, "n", SP, DQ>> \o body \o <<DQ, RP, RP>>
        IN  /\ l_text = head \o tail
            /\ l_key = k
            /\ l_true = Len(head)
            /\ l_pc = "call"
            /\ l_result = None
            /\ MutIdle
            /\ DedupIdle
            /\ ParseIdle
            /\ HandlerIdle

Locate ==
    /\ l_pc = "call"
    /\ l_pc' = "done"
    /\ l_result' = find_song_entry_bounds(l_text, l_key)
    /\ UNCHANGED <<l_text, l_key, l_true, mvars, dvars, pvars, hvars>>

LocNext == Locate

SpecLocate == LocInit /\ [][LocNext]_vars

\* C8: while the scanner is inside a double-quoted string no character changes
\* paren_depth, and the span found ends at the entry's true closing parenthesis
\* (plus the blanks that follow it on the line).
C8_QuotedParensIgnored ==
    /\ \A i \in 1..(Len(l_text) - 1) :
         LET s == ScanState(l_text, 1, i)
         IN  s.in_string =>
                ScanStep(s, At(l_text, i)).paren_depth = s.paren_depth
    /\ l_pc = "done" =>
         /\ l_result # None
         /\ l_result[1] = 0
         /\ l_result[2] = SkipBlanks(l_text, l_true)
         /\ At(l_text, l_true - 1) = RP

\* A located entry whose string holds an unbalanced ')' and an escaped quote.
C8_Witness ==
    /\ l_pc = "done"
    /\ l_result # None
    /\ \E i \in 1..(l_true - 2) :
         /\ ScanState(l_text, 1, i).in_string
         /\ At(l_text, i) = RP
    /\ \E i \in 1..(l_true - 2) :
         /\ ScanState(l_text, 1, i).in_string
         /\ ScanState(l_text, 1, i + 1).escape_next
         /\ At(l_text, i + 1) = DQ

(***************************************************************************)
(* The dedup engine as a process: one build over the extracted list, then  *)
(* a second build over the list the first one kept.                        *)
(***************************************************************************)
BuildCatalog ==
    /\ d_pc = "first"
    /\ dedup' = DedupEngine(extracted)
    /\ d_pc' = "second"
    /\ UNCHANGED <<extracted, rerun, lvars, mvars, pvars, hvars>>

BuildCatalogAgain ==
    /\ d_pc = "second"
    /\ rerun' = DedupEngine(dedup.all_songs)
    /\ d_pc' = "done"
    /\ UNCHANGED <<extracted, dedup, lvars, mvars, pvars, hvars>>

\* ---- inputs ----
MaxSongs == 3

Path(pack) == <<GAME, <<"T">>, USRDIR>> \o pack \o <<SONGS_DTA>>

SONGS_DIR == <<"s", "o", "n", "g", "s">>

PathBase == Path(<<>>)

PathExport == Path(<<<<"e", "x", "p", "o", "r", "t">>, SONGS_DIR>>)

PathPack == Path(<<<<"P", "a", "c", "k">>, SONGS_DIR>>)

PathContentId == Path(<<<<"O", "1", "2", "3", "4", "5">>, SONGS_DIR>>)

PathCustom == Path(<<<<"c", "u", "s", "t", "o", "m">>, SONGS_DIR>>)

PathMisc == Path(<<<<"m", "i", "s", "c">>, SONGS_DIR>>)

SourcePaths == {PathBase, PathExport, PathPack, PathContentId, PathCustom, PathMisc}

Empty == StrV(<<>>)

Fields(year, album, genre, sub_genre, decade) ==
    [year |-> year, album |-> album, genre |-> genre, sub_genre |-> sub_genre,
     decade |-> decade]

Song(parts, ident, fields) ==
    LET p == derive_pack(parts)
    IN  [song_key |-> ident.song_key, song_id |-> ident.song_id,
         name |-> ident.name, artist |-> ident.artist,
         album |-> fields.album, year |-> fields.year, decade |-> fields.decade,
         genre |-> fields.genre, sub_genre |-> fields.sub_genre,
         title_id |-> p.title_id, pack_name |-> p.pack_name,
         pack_type |-> p.pack_type, source_file |-> parts]

\* The merge fields of a pack's copy of a song
PackFields(parts) ==
    CASE parts = PathBase -> Fields(Empty, Empty, Empty, Empty, Empty)
      [] parts = PathExport -> Fields(IntV(0), StrV(<<SP>>), Empty, Empty, Empty)
      [] parts = PathPack -> Fields(Empty, Empty, Empty, StrV(<<"s">>), Empty)
      [] parts = PathContentId -> Fields(IntV(1970), Empty, StrV(<<"r">>), Empty, Empty)
      [] parts = PathCustom -> Fields(IntV(1965), StrV(<<"x">>), StrV(<<"g">>), Empty, Empty)
      [] OTHER -> Fields(IntV(1970), StrV(<<"X">>), Empty, Empty, StrV(<<"d">>))

\* Two identities share song_id 7, two share song_key j and two share artist
\* and name, so each pair can meet in one pass only.
Identities ==
    {[song_key |-> <<"k">>, song_id |-> IntV(7), name |-> <<"n">>, artist |-> <<"a">>],
     [song_key |-> <<"j">>, song_id |-> IntV(7), name |-> <<"m">>, artist |-> <<"a">>],
     [song_key |-> <<"j">>, song_id |-> Empty, name |-> <<"n">>, artist |-> <<"a">>]}

\* One song in each of the six packs
RankSongs == {Song(parts, CHOOSE ident \in Identities : ident.song_key = <<"k">>,
                   PackFields(parts)) : parts \in SourcePaths}

\* The three identities in four packs
PackSongs ==
    {Song(parts, ident, PackFields(parts)) :
        parts \in {PathBase, PathPack, PathContentId, PathCustom}, ident \in Identities}

\* Songs of two packs with no song_id, told apart by song_key per pack, whose
\* artist differs in case and blanks or is missing
Artists == {<<"a">>, <<"A", SP>>, <<>>}

Profiles ==
    {Fields(Empty, Empty, Empty, Empty, Empty),
     Fields(IntV(0), StrV(<<SP>>), StrV(<<"g">>), Empty, Empty)}

MetaSongs ==
    {Song(parts,
          [song_key |-> IF parts = PathBase THEN <<"k">> ELSE <<"j">>,
           song_id |-> Empty, name |-> <<"n">>, artist |-> artist],
          fields) :
        parts \in {PathBase, PathCustom}, artist \in Artists, fields \in Profiles}

\* Songs of two packs with no song_id: one without artist, and one whose
\* artist is the text pass 3 uses to mark records without metadata and whose
\* name is the other's song_key
SentinelSongs ==
    {Song(parts, ident, Fields(Empty, Empty, Empty, Empty, Empty)) :
        parts \in {PathBase, PathCustom},
        ident \in {[song_key |-> <<"k">>, song_id |-> Empty, name |-> <<"n">>,
                    artist |-> <<>>],
                   [song_key |-> <<"j">>, song_id |-> Empty, name |-> <<"k">>,
                    artist |-> NO_META]}}

Extractions ==
    UNION {[1..n -> RankSongs] \cup [1..n -> PackSongs] \cup [1..n -> MetaSongs]
              \cup [1..n -> SentinelSongs] :
              n \in 0..MaxSongs}

DedupInit ==
    /\ extracted \in Extractions
    /\ dedup = NoRun
    /\ rerun = NoRun
    /\ d_pc = "first"
    /\ LocIdle
    /\ MutIdle
    /\ ParseIdle
    /\ HandlerIdle

DedupNext == BuildCatalog \/ BuildCatalogAgain

SpecDedup == DedupInit /\ [][DedupNext]_vars

(***************************************************************************)
(* Claims about the dedup engine.  They speak of the first run, in the     *)
(* state it ends in: its lists before and after each pass and the records  *)
(* before and after each pass.                                             *)
(***************************************************************************)
Passes == {1, 2, 3}

Elems(seq) == {seq[i] : i \in DOMAIN seq}

ListBefore(p) ==
    CASE p = 1 -> [i \in 1..Len(dedup.sorted) |-> i]
      [] p = 2 -> dedup.after_id
      [] OTHER -> dedup.after_key

ListAfter(p) ==
    CASE p = 1 -> dedup.after_id [] p = 2 -> dedup.after_key [] OTHER -> dedup.kept

StoreBefore(p) ==
    CASE p = 1 -> dedup.sorted [] p = 2 -> dedup.store1 [] OTHER -> dedup.store2

StoreAfter(p) ==
    CASE p = 1 -> dedup.store1 [] p = 2 -> dedup.store2 [] OTHER -> dedup.store3

\* the members of i's group in pass p, i among them
GroupMembers(p, i) ==
    {j \in Elems(ListBefore(p)) :
        /\ PassKey(p, StoreBefore(p)[j]).ok
        /\ PassKey(p, StoreBefore(p)[j]) = PassKey(p, StoreBefore(p)[i])}

\* the duplicate groups pass p resolves
DupGroups(p) ==
    {G \in {GroupMembers(p, i) : i \in Elems(ListBefore(p))} : Cardinality(G) >= 2}

KeptOf(p, G) == G \cap Elems(ListAfter(p))

\* the priority tuple as the specification words it
RankOf(pack_type) ==
    LET order == <<"disc", "export", "dlc", "custom", "other">>
    IN  IF \E n \in 1..5 : order[n] = pack_type
        THEN CHOOSE n \in 1..5 : order[n] = pack_type
        ELSE 6

PriorityTuple(song) == <<RankOf(song.pack_type), IF ContentIdName(song.pack_name) THEN 1 ELSE 0>>

\* C3: in every duplicate group of any pass exactly one member is kept and no
\* member has a smaller priority tuple than it; a custom record sharing its
\* song_id with a disc record does not survive pass 1; on a pack-type tie a
\* member with a content-ID pack name is not kept over one with a human name.
C3_KeptHasMinPriority ==
    d_pc = "second" =>
        /\ \A p \in Passes : \A G \in DupGroups(p) :
              /\ Cardinality(KeptOf(p, G)) = 1
              /\ \A k \in KeptOf(p, G), m \in G :
                    /\ ~TupleLess(PriorityTuple(StoreBefore(p)[m]),
                                  PriorityTuple(StoreBefore(p)[k]))
                    /\ (/\ StoreBefore(p)[m].pack_type = StoreBefore(p)[k].pack_type
                        /\ ~ContentIdName(StoreBefore(p)[m].pack_name))
                       => ~ContentIdName(StoreBefore(p)[k].pack_name)
        /\ \A i, j \in 1..Len(dedup.sorted) :
              (/\ dedup.sorted[i].song_id.kind = "int"
               /\ dedup.sorted[i].song_id.val > 0
               /\ dedup.sorted[j].song_id = dedup.sorted[i].song_id
               /\ dedup.sorted[i].pack_type = "disc"
               /\ dedup.sorted[j].pack_type = "custom")
              => j \notin Elems(dedup.after_id)

\* a group of three whose kept member comes after a member of its own pack
\* type with a content-ID pack name and after a member of a lower pack type
C3_Witness ==
    /\ d_pc = "second"
    /\ \E p \in Passes : \E G \in DupGroups(p) : \E k \in KeptOf(p, G), m \in G, n \in G :
          /\ m < k
          /\ n < k
          /\ StoreBefore(p)[m].pack_type = StoreBefore(p)[k].pack_type
          /\ ContentIdName(StoreBefore(p)[m].pack_name)
          /\ ~ContentIdName(StoreBefore(p)[k].pack_name)
          /\ RankOf(StoreBefore(p)[n].pack_type) > RankOf(StoreBefore(p)[k].pack_type)

MergeFieldNames == {"year", "album", "genre", "sub_genre", "decade"}

OtherFieldNames ==
    {"song_key", "song_id", "name", "artist", "pack_name", "pack_type",
     "source_file", "title_id"}

\* the dropped members of G, in group order, whose field f is not empty
Donors(p, G, k, f, empties) ==
    SelectSeq(ListBefore(p),
              LAMBDA m : m \in G /\ m # k /\ StoreBefore(p)[m][f] \notin empties)

\* field inheritance, for a given reading of "empty"
InheritsFirstNonEmpty(empties) ==
    d_pc = "second" =>
        \A p \in Passes :
            LET groups == DupGroups(p)
                keepers == UNION {KeptOf(p, G) : G \in groups}
            IN  /\ \A G \in groups : \A k \in KeptOf(p, G) : \A f \in MergeFieldNames :
                      LET donors == Donors(p, G, k, f, empties)
                      IN  IF StoreBefore(p)[k][f] \in empties /\ donors # <<>>
                          THEN StoreAfter(p)[k][f] = StoreBefore(p)[donors[1]][f]
                          ELSE StoreAfter(p)[k][f] = StoreBefore(p)[k][f]
                /\ \A i \in 1..Len(dedup.sorted) :
                      IF i \in keepers
                      THEN \A f \in OtherFieldNames :
                               StoreAfter(p)[i][f] = StoreBefore(p)[i][f]
                      ELSE StoreAfter(p)[i] = StoreBefore(p)[i]

\* C4 as stated, an empty value being the empty string get_field and
\* get_field_int return for an absent field: a kept record's empty merge
\* field ends with the first non-empty value among the dropped members in
\* group order, a non-empty one is never overwritten, and no other field of
\* any record changes.
C4_InheritsFirstNonEmpty == InheritsFirstNonEmpty({StrV(<<>>)})

\* C4 amended: the same, an empty value being the empty string or the
\* integer 0.
C4_InheritsFirstTruthy == InheritsFirstNonEmpty({StrV(<<>>), IntV(0)})

\* a kept record without a year takes the year of the first of two dropped
\* members whose years differ, and a kept record keeps an album of its own
\* although a dropped member has another
C4_Witness ==
    /\ d_pc = "second"
    /\ \E p \in Passes : \E G \in DupGroups(p) : \E k \in KeptOf(p, G) :
          LET donors == Donors(p, G, k, "year", {StrV(<<>>), IntV(0)})
          IN  /\ ~Truthy(StoreBefore(p)[k].year)
              /\ Len(donors) = 2
              /\ StoreBefore(p)[donors[1]].year # StoreBefore(p)[donors[2]].year
              /\ StoreAfter(p)[k].year = StoreBefore(p)[donors[1]].year
    /\ \E p \in Passes : \E G \in DupGroups(p) : \E k \in KeptOf(p, G), m \in G :
          /\ Truthy(StoreBefore(p)[k].album)
          /\ Truthy(StoreBefore(p)[m].album)
          /\ StoreBefore(p)[m].album # StoreBefore(p)[k].album

RemovedBy(p) == SelectSeq(ListBefore(p), LAMBDA i : i \notin Elems(ListAfter(p)))

\* the DroppedRecord the specification asks for record i removed in pass p
DroppedRecordFor(p, i) ==
    LET k == CHOOSE k \in KeptOf(p, GroupMembers(p, i)) : TRUE
    IN  [song_key |-> dedup.sorted[i].song_key, name |-> dedup.sorted[i].name,
         artist |-> dedup.sorted[i].artist,
         source_file |-> dedup.sorted[i].source_file,
         pack_name |-> dedup.sorted[i].pack_name,
         kept_pack |-> dedup.sorted[k].pack_name]

DroppedRecordsOf(p) == [n \in 1..Len(RemovedBy(p)) |-> DroppedRecordFor(p, RemovedBy(p)[n])]

\* C6: the dropped list holds one DroppedRecord for each record a pass
\* removed and nothing else, each with the removed record's own song_key,
\* name, artist, source_file and pack_name and the pack name of the record
\* kept in its group; kept count plus dropped count is the extracted count.
C6_DroppedRecords ==
    d_pc = "second" =>
        /\ dedup.dropped = DroppedRecordsOf(1) \o DroppedRecordsOf(2) \o DroppedRecordsOf(3)
        /\ Len(dedup.all_songs) + Len(dedup.dropped) = Len(extracted)

\* records were removed in pass 1 and in pass 3, one of them in favour of a
\* record of another pack
C6_Witness ==
    /\ d_pc = "second"
    /\ RemovedBy(1) # <<>>
    /\ RemovedBy(3) # <<>>
    /\ \E n \in 1..Len(dedup.dropped) : dedup.dropped[n].kept_pack # dedup.dropped[n].pack_name

\* trim + lowercase
Normalized(str) == LowerStr(Strip(str))

\* a record whose artist or name is empty after trimming
LacksMeta(song) == Normalized(song.artist) = <<>> \/ Normalized(song.name) = <<>>

Triple(song) ==
    <<Normalized(song.artist), Normalized(song.name), Normalized(song.album.val)>>

DroppedByMeta == Elems(dedup.after_key) \ Elems(dedup.kept)

\* C17: pass 3 drops no record whose artist or name is empty after trimming,
\* and a record it drops has its normalized (artist, name, album) in common
\* with a kept record that has both artist and name: no record is dropped on
\* account of one that lacks them.
C17_NoMetaExempt ==
    d_pc = "second" =>
        \A j \in DroppedByMeta :
            /\ ~LacksMeta(dedup.store2[j])
            /\ \E i \in Elems(dedup.kept) :
                  /\ ~LacksMeta(dedup.store2[i])
                  /\ Triple(dedup.store2[i]) = Triple(dedup.store2[j])

\* the extracted songs a dropped record was made from
SongsOf(record) ==
    {i \in 1..Len(dedup.sorted) :
        /\ i \notin Elems(dedup.kept)
        /\ dedup.store3[i].song_key = record.song_key
        /\ dedup.store3[i].name = record.name
        /\ dedup.store3[i].artist = record.artist
        /\ dedup.store3[i].source_file = record.source_file
        /\ dedup.store3[i].pack_name = record.pack_name}

\* songs i and k have the same song_id, song_key or metadata key
SharesKey(i, k) ==
    \E p \in Passes :
        /\ PassKey(p, dedup.store3[i]).ok
        /\ PassKey(p, dedup.store3[i]) = PassKey(p, dedup.store3[k])

\* C25: the kept_pack of every dropped record of the final audit trail is
\* the pack name of a record of the final kept set that shares a song_id,
\* song_key or metadata key with the dropped song, also when the record that
\* displaced it was itself dropped by a later pass.
C25_KeptPackSurvives ==
    d_pc \in {"second", "done"} =>
        \A n \in 1..Len(dedup.dropped) :
            \E k \in Elems(dedup.kept), i \in SongsOf(dedup.dropped[n]) :
                /\ dedup.store3[k].pack_name = dedup.dropped[n].kept_pack
                /\ SharesKey(i, k)

\* what holds of the code: when at most one pass drops anything, every
\* kept_pack names a kept record sharing a key with the dropped song
KeptPackSurvivesOnePass ==
    Cardinality({p \in Passes : Len(ListAfter(p)) < Len(ListBefore(p))}) <= 1
        => C25_KeptPackSurvives

(***************************************************************************)
(* The lexer, parser and serializer as a process: a text is tokenized and  *)
(* its tokens parsed, or parse_top_level does both; the text is given or   *)
(* is what format_dta_entries writes for a composed entry.                 *)
(***************************************************************************)
Serialize ==
    /\ p_pc = "serialize"
    /\ p_text' = format_dta_entries(p_entries)
    /\ p_pc' = "text"
    /\ UNCHANGED <<p_entries, p_tokens, p_result, lvars, mvars, dvars, hvars>>

Tokenize ==
    /\ p_pc = "text"
    /\ p_tokens' = tokenize(p_text)
    /\ p_pc' = "tokens"
    /\ UNCHANGED <<p_entries, p_text, p_result, lvars, mvars, dvars, hvars>>

ParseTokens ==
    /\ p_pc = "tokens"
    /\ p_result' = parse_tokens(p_tokens)
    /\ p_pc' = "done"
    /\ UNCHANGED <<p_entries, p_text, p_tokens, lvars, mvars, dvars, hvars>>

ParseTopLevel ==
    /\ p_pc = "text"
    /\ p_result' = parse_top_level(p_text)
    /\ p_pc' = "done_top"
    /\ UNCHANGED <<p_entries, p_text, p_tokens, lvars, mvars, dvars, hvars>>

\* ---- inputs ----
MaxLen == 4

MaxFields == 2

ParseChars == {LP, RP, DQ, BS, SP, NL, SQ, ";", "a", "7", SUP2}

Texts == UNION {[1..n -> ParseChars] : n \in 0..MaxLen}

\* Values of a composed field: strings, integers, nested lists
FieldValues ==
    {StrV(<<"x">>), StrV(<<"a", SP, "b">>), StrV(<<"a", DQ, "b", BS, "c">>),
     StrV(<<"7">>), StrV(<<>>), StrV(<<LP>>),
     IntV(5), IntV(0 - 1),
     ListV(<<>>), ListV(<<IntV(1), StrV(<<"y">>)>>), ListV(<<ListV(<<StrV(<<"z">>)>>)>>)}

SongKeys == {<<"k">>, <<"a", SP, "b">>}

ComposedEntries ==
    {ListV(<<StrV(k)>> \o [n \in 1..Len(vs) |-> ListV(<<StrV(<<"n">>), vs[n]>>)]) :
        k \in SongKeys, vs \in UNION {[1..n -> FieldValues] : n \in 0..MaxFields}}

ParseInit ==
    /\ \/ /\ p_entries \in {<<entry>> : entry \in ComposedEntries}
          /\ p_text = <<>>
          /\ p_pc = "serialize"
       \/ /\ p_entries = <<>>
          /\ p_text \in Texts
          /\ p_pc = "text"
    /\ p_tokens = <<>>
    /\ p_result = NoResult
    /\ LocIdle
    /\ MutIdle
    /\ DedupIdle
    /\ HandlerIdle

ParseNext == Serialize \/ Tokenize \/ ParseTokens \/ ParseTopLevel

SpecParse == ParseInit /\ [][ParseNext]_vars

(***************************************************************************)
(* Claims about the lexer, parser and serializer                           *)
(***************************************************************************)
\* C9: for a composed entry (a song-key string, then field lists whose values
\* are strings, integers or nested lists) tokenizing and parsing what the
\* serializer wrote returns that entry and nothing else.
C9_SerializeRoundTrip ==
    (p_pc = "done" /\ p_entries # <<>>) =>
        (p_result.status = "ok" /\ p_result.exprs = p_entries)

\* the text opens a double quote at offset q, at the start of a token, and
\* holds no other quote and no backslash
UnterminatedQuoteAt(text, q) ==
    /\ At(text, q) = DQ
    /\ \A i \in 0..(Len(text) - 1) : i # q => At(text, i) \notin {DQ, BS}
    /\ q = 0 \/ IsSpace(At(text, q - 1)) \/ At(text, q - 1) \in {LP, RP}

\* how many lists are still open at the end of tokens
RECURSIVE OpenLists(_, _)
OpenLists(tokens, depth) ==
    IF tokens = <<>> THEN depth
    ELSE OpenLists(Tail(tokens),
                   IF Head(tokens) = <<LP>> THEN depth + 1
                   ELSE IF Head(tokens) = <<RP>> /\ depth > 0 THEN depth - 1
                   ELSE depth)

Closers(n) == [i \in 1..n |-> <<RP>>]

\* C10, tokenize: the quote opened last and never closed yields, as the last
\* token, the text from the quote to the end of input.
UnterminatedQuoteToEnd ==
    p_pc = "tokens" =>
        \A q \in 0..(Len(p_text) - 1) :
            UnterminatedQuoteAt(p_text, q) =>
                /\ p_tokens # <<>>
                /\ p_tokens[Len(p_tokens)] = Slice(p_text, q + 1, Len(p_text))

\* C10, parse: when parse returns for tokens that leave lists open, it
\* returns what it returns for the same tokens with the lists closed.
PartialLists ==
    (p_pc = "done" /\ p_result.status = "ok") =>
        p_result = parse_tokens(p_tokens \o Closers(OpenLists(p_tokens, 0)))

\* C10: tokenize and parse return a result for every text and never raise;
\* an unterminated quote yields a token up to the end of input and a list
\* left open yields the list of the children read so far.
C10_NeverRaises ==
    /\ p_pc \in {"done", "done_top"} => p_result.status = "ok"
    /\ UnterminatedQuoteToEnd
    /\ PartialLists

\* the text with every double-quoted string whose content is exactly '(' or
\* ')' rewritten as "L" or "R"; strings, bare tokens, blanks and parentheses
\* are delimited as the lexer delimits them
RECURSIVE MarkQuotedParens(_, _, _)
MarkQuoted(text, i, q, out) ==
    MarkQuotedParens(text, q.i,
        out \o (IF q.out = <<LP>> THEN <<DQ, "L", DQ>>
                ELSE IF q.out = <<RP>> THEN <<DQ, "R", DQ>>
                ELSE Slice(text, i, q.i)))

MarkQuotedParens(text, i, out) ==
    IF i >= Len(text) THEN out
    ELSE IF At(text, i) = DQ THEN MarkQuoted(text, i, QuotedToken(text, i + 1, <<>>), out)
    ELSE IF IsSpace(At(text, i)) \/ At(text, i) \in {LP, RP}
         THEN MarkQuotedParens(text, i + 1, Append(out, At(text, i)))
    ELSE MarkQuotedParens(text, BareEnd(text, i), out \o Slice(text, i, BareEnd(text, i)))

\* the nodes with the strings L and R read as the strings '(' and ')'
RECURSIVE UnmarkNode(_)
UnmarkNode(node) ==
    IF node.kind = "list" THEN ListV([n \in 1..Len(node.val) |-> UnmarkNode(node.val[n])])
    ELSE IF node = StrV(<<"L">>) THEN StrV(<<LP>>)
    ELSE IF node = StrV(<<"R">>) THEN StrV(<<RP>>)
    ELSE node

Unmarked(result) ==
    [result EXCEPT !.exprs = [n \in 1..Len(result.exprs) |-> UnmarkNode(result.exprs[n])]]

\* C28: a double-quoted string whose content is exactly '(' or ')' is read as
\* a String node and opens or closes no List: the parse of a text holding
\* such strings is the parse of the text with other one-character strings in
\* their places, with the strings '(' and ')' as the nodes at those places.
C28_QuotedParenIsString ==
    (p_pc = "done" /\ MarkQuotedParens(p_text, 0, <<>>) # p_text) =>
        p_result = Unmarked(parse_tokens(tokenize(MarkQuotedParens(p_text, 0, <<>>))))

(***************************************************************************)
(* Field lookup as a process: get_field or get_field_int is called with    *)
(* the items of a parsed entry (p_entries) and a field name (p_text).      *)
(***************************************************************************)
GetField ==
    /\ p_pc = "field"
    /\ p_result' = Returned(<<get_field(p_entries, p_text)>>)
    /\ p_pc' = "got"
    /\ UNCHANGED <<p_entries, p_text, p_tokens, lvars, mvars, dvars, hvars>>

GetFieldInt ==
    /\ p_pc = "field"
    /\ p_result' = Returned(<<get_field_int(p_entries, p_text)>>)
    /\ p_pc' = "got_int"
    /\ UNCHANGED <<p_entries, p_text, p_tokens, lvars, mvars, dvars, hvars>>

\* ---- inputs ----
MaxItems == 3

\* items of an entry: field lists with and without a value, with an integer,
\* a string or a list as value, with another name, the empty list, a list
\* headed by an integer, and a string that is no list
EntryItems ==
    {ListV(<<StrV(<<"n">>)>>), ListV(<<StrV(<<"n">>), IntV(5)>>),
     ListV(<<StrV(<<"n">>), StrV(<<"5">>)>>), ListV(<<StrV(<<"n">>), IntV(6), IntV(7)>>),
     ListV(<<StrV(<<"N">>), IntV(8)>>), ListV(<<StrV(<<"n">>), ListV(<<IntV(9)>>)>>),
     ListV(<<>>), ListV(<<IntV(5), IntV(4)>>), StrV(<<"n">>)}

FieldNames == {<<"n">>, <<"N">>, <<"z">>}

FieldInit ==
    /\ p_entries \in UNION {[1..n -> EntryItems] : n \in 0..MaxItems}
    /\ p_text \in FieldNames
    /\ p_pc = "field"
    /\ p_tokens = <<>>
    /\ p_result = NoResult
    /\ LocIdle
    /\ MutIdle
    /\ DedupIdle
    /\ HandlerIdle

FieldNext == GetField \/ GetFieldInt

SpecField == FieldInit /\ [][FieldNext]_vars

\* the items that are lists headed by the name, in order
HeadedBy(entries, name) ==
    {i \in 1..Len(entries) :
        /\ entries[i].kind = "list"
        /\ entries[i].val # <<>>
        /\ entries[i].val[1] = StrV(name)}

\* the second element of the first list headed by the name, or empty
SecondOfFirst(entries, name) ==
    IF HeadedBy(entries, name) = {} THEN StrV(<<>>)
    ELSE IF Len(entries[Min(HeadedBy(entries, name))].val) < 2 THEN StrV(<<>>)
    ELSE entries[Min(HeadedBy(entries, name))].val[2]

\* C21: get_field returns the second element of the first child list whose
\* head equals the name (case-sensitively), or empty when there is no such
\* child or it has no second element; get_field_int returns that value when
\* it is an integer and empty otherwise.
C21_FirstHeadDecides ==
    /\ p_pc = "got" => p_result.exprs[1] = SecondOfFirst(p_entries, p_text)
    /\ p_pc = "got_int" =>
          p_result.exprs[1] = (IF SecondOfFirst(p_entries, p_text).kind = "int"
                               THEN SecondOfFirst(p_entries, p_text) ELSE StrV(<<>>))

\* what holds of the code: a headed list without a second element is passed
\* over and the next headed list is consulted
FirstHeadWithValue ==
    /\ p_pc = "got" => p_result.exprs[1] = SecondOfFirst(
            SelectSeq(p_entries, LAMBDA ent : ent.kind # "list" \/ Len(ent.val) # 1), p_text)

(***************************************************************************)
(* Locator specification on whole files: a text of a few pieces (entries   *)
(* closed and unclosed, a header, an entry with a comment in it, an entry  *)
(* with no newline before it) and a key that names none, one or several of *)
(* them.                                                                   *)
(***************************************************************************)
MaxPieces == 3

Pieces ==
    { <<";", "h">>,
      <<NL, LP, "a", SP, LP, "n", RP, RP>>,
      <<NL, LP, SQ, "a", SQ, NL, SP, LP, "n", SP, DQ, RP, DQ, RP, NL, RP, SP, TAB>>,
      <<NL, LP, "a", "b", RP, SP>>,
      <<NL, LP, "a", SP, LP, "n">>,
      <<NL, LP, NL, SP, "B", RP, NL>>,
      <<NL, LP, "a", ";", RP, NL, "b", RP>>,
      <<LP, "a", RP>> }

PieceTexts == {Flatten(ps) : ps \in UNION {[1..n -> Pieces] : n \in 0..MaxPieces}}

BoundsKeys == {<<"a">>, <<"A", "B">>, <<"b">>, <<"z">>}

BoundsInit ==
    /\ l_text \in PieceTexts
    /\ l_key \in BoundsKeys
    /\ l_true = 0
    /\ l_pc = "call"
    /\ l_result = None
    /\ MutIdle
    /\ DedupIdle
    /\ ParseIdle
    /\ HandlerIdle

SpecBounds == BoundsInit /\ [][LocNext]_vars

\* the ')' at offset c brings the depth counted from the '(' at open back to
\* zero, outside any double-quoted string
ClosesAt(text, open, c) ==
    /\ At(text, c) = RP
    /\ LET s == ScanState(text, open, c)
       IN  ~s.escape_next /\ ~s.in_string /\ s.paren_depth = 1

ClosingOffsets(text, open) == {c \in (open + 1)..(Len(text) - 1) : ClosesAt(text, open, c)}

\* end lies just past the spaces and tabs that follow the ')' matching the
\* '(' at open
EndsAfterClose(text, open, end) ==
    /\ ClosingOffsets(text, open) # {}
    /\ LET c == Min(ClosingOffsets(text, open))
       IN  /\ c < end
           /\ end <= Len(text)
           /\ \A i \in (c + 1)..(end - 1) : At(text, i) \in {SP, TAB}
           /\ end = Len(text) \/ At(text, end) \notin {SP, TAB}

\* every newline at from..end-1 lies between the '(' at open and its ')'
BreaksInside(text, from, open, end) ==
    \A i \in from..(end - 1) :
        At(text, i) = NL => (open < i /\ i < Min(ClosingOffsets(text, open)))

KeyAt(text, i, key) ==
    /\ i + Len(key) <= Len(text)
    /\ \A j \in 1..Len(key) : Lower(At(text, i + j - 1)) = Lower(key[j])

\* a newline at p, then '(', whitespace or none, a quote or none, and key
Anchored(text, p, key) ==
    /\ At(text, p) = NL
    /\ At(text, p + 1) = LP
    /\ \E i \in (p + 2)..Len(text) :
          /\ \A j \in (p + 2)..(i - 1) : IsSpace(At(text, j))
          /\ KeyAt(text, i, key) \/ (At(text, i) = SQ /\ KeyAt(text, i + 1, key))

Anchors(text, key) == {p \in 0..(Len(text) - 2) : Anchored(text, p, key)}

SpanKey(text, span) ==
    IF Len(tokenize(Slice(text, span[1], span[2]))) < 2 THEN <<>>
    ELSE tokenize(Slice(text, span[1], span[2]))[2]

\* C22: a span the locator returns is the span of an entry whose song key
\* equals the key, letter case apart; an entry whose key only begins with
\* the key is never located in its place.
C22_KeyMatchesWhole ==
    (l_pc = "done" /\ l_result # None) =>
        LowerStr(SpanKey(l_text, l_result)) = LowerStr(l_key)

\* what holds of the code: the located entry's key begins with the key
KeyMatchesPrefix ==
    (l_pc = "done" /\ l_result # None) =>
        /\ Len(SpanKey(l_text, l_result)) >= Len(l_key)
        /\ LowerStr(SubSeq(SpanKey(l_text, l_result), 1, Len(l_key))) = LowerStr(l_key)

\* the top-level entries the parser reads in text whose song key is key
EntriesWithKey(text, key) ==
    SelectSeq(parse_top_level(text).exprs,
              LAMBDA entry : /\ entry.kind = "list"
                             /\ entry.val # <<>>
                             /\ entry.val[1] = StrV(key))

\* C27: when the parser reads a top-level entry with the key in the text,
\* the locator returns a span for the key, and the text of that span parses
\* to exactly one entry, the first one the parser reads with that key.
C27_LocatorAgreesWithParser ==
    (l_pc = "done" /\ EntriesWithKey(l_text, l_key) # <<>>) =>
        /\ l_result # None
        /\ parse_top_level(Slice(l_text, l_result[1], l_result[2])).exprs
              = <<EntriesWithKey(l_text, l_key)[1]>>

\* what holds of the code: the two agree on a text without comments whose
\* every entry starts on a line of its own and whose first entry with a key
\* that begins with the key has the key itself
AgreesOnPlainText ==
    (/\ l_pc = "done"
     /\ EntriesWithKey(l_text, l_key) # <<>>
     /\ \A i \in 1..Len(l_text) : l_text[i] # ";"
     /\ l_text[1] # LP
     /\ l_result # None
     /\ LowerStr(SpanKey(l_text, l_result)) = LowerStr(l_key)) =>
        parse_top_level(Slice(l_text, l_result[1], l_result[2])).exprs
            = <<EntriesWithKey(l_text, l_key)[1]>>

(***************************************************************************)
(* The server: ThreadingHTTPServer runs Handler.do_POST of every request   *)
(* on a thread of its own.  Two POST /api/delete requests naming songs of  *)
(* one songs.dta are followed through remove_songs_from_dta step by step.  *)
(***************************************************************************)
MaxHandlers == 2

Handlers == 1..MaxHandlers

NoReply == [status |-> "none", removed |-> <<>>, not_found |-> <<>>]

\* catalog.json as build_catalog leaves it: the keys of the songs text holds
CatalogOf(text) ==
    {k \in {<<"a">>, <<"b">>} : find_song_entry_bounds(text, k) # None}

\* do_POST lines 242-275: the request is read and validated against the
\* catalog (validate_deletion_request: every key is a key of the catalog)
HandlerDelete(t, song_keys) ==
    /\ h_pc[t] = "idle"
    /\ h_keys' = [h_keys EXCEPT ![t] = song_keys]
    /\ IF \A i \in 1..Len(song_keys) : song_keys[i] \in h_catalog
       THEN /\ h_pc' = [h_pc EXCEPT ![t] = "read"]
            /\ UNCHANGED h_ret
       ELSE /\ h_pc' = [h_pc EXCEPT ![t] = "done"]
            /\ h_ret' = [h_ret EXCEPT ![t] = [NoReply EXCEPT !.status = "invalid"]]
    /\ UNCHANGED <<h_file, h_catalog, h_text, lvars, mvars, dvars, pvars>>

\* do_POST line 282, remove_songs_from_dta lines 103-110: the file is read
HandlerRead(t) ==
    /\ h_pc[t] = "read"
    /\ h_text' = [h_text EXCEPT ![t] = h_file]
    /\ h_pc' = [h_pc EXCEPT ![t] = "backup"]
    /\ UNCHANGED <<h_file, h_catalog, h_keys, h_ret, lvars, mvars, dvars, pvars>>

\* remove_songs_from_dta lines 112-118: the backup file is written
HandlerBackup(t) ==
    /\ h_pc[t] = "backup"
    /\ h_pc' = [h_pc EXCEPT ![t] = "write"]
    /\ UNCHANGED <<h_file, h_catalog, h_keys, h_text, h_ret, lvars, mvars, dvars, pvars>>

\* remove_songs_from_dta lines 120-157: the entries are spliced out of the
\* text this thread read and the file is written
HandlerWrite(t) ==
    /\ h_pc[t] = "write"
    /\ LET r == RemoveEntries(h_text[t], h_keys[t])
       IN  /\ h_file' = r.text
           /\ h_ret' = [h_ret EXCEPT ![t] = [status |-> "ok",
                                             removed |-> r.removed,
                                             not_found |-> r.not_found]]
    /\ h_pc' = [h_pc EXCEPT ![t] = "rebuild"]
    /\ UNCHANGED <<h_catalog, h_keys, h_text, lvars, mvars, dvars, pvars>>

\* do_POST lines 286-297: build_catalog reads songs.dta again and writes the
\* catalog, and the response is sent
HandlerRebuild(t) ==
    /\ h_pc[t] = "rebuild"
    /\ h_catalog' = CatalogOf(h_file)
    /\ h_pc' = [h_pc EXCEPT ![t] = "done"]
    /\ UNCHANGED <<h_file, h_keys, h_text, h_ret, lvars, mvars, dvars, pvars>>

\* ---- inputs ----
HandlerFiles ==
    { Header \o EntryA \o EntryB,
      Header \o EntryAOwnLine \o EntryB \o <<NL>>,
      Header \o EntryB \o EntryA }

RequestKeys == {<<<<"a">>>>, <<<<"b">>>>, <<<<"a">>, <<"b">>>>, <<<<"z">>>>}

HandlerInit ==
    /\ h_file \in HandlerFiles
    /\ h_catalog = CatalogOf(h_file)
    /\ h_pc = [t \in Handlers |-> "idle"]
    /\ h_keys = [t \in Handlers |-> <<>>]
    /\ h_text = [t \in Handlers |-> <<>>]
    /\ h_ret = [t \in Handlers |-> NoReply]
    /\ LocIdle
    /\ MutIdle
    /\ DedupIdle
    /\ ParseIdle

HandlerNext ==
    \E t \in Handlers :
        \/ \E ks \in RequestKeys : HandlerDelete(t, ks)
        \/ HandlerRead(t)
        \/ HandlerBackup(t)
        \/ HandlerWrite(t)
        \/ HandlerRebuild(t)

SpecServer == HandlerInit /\ [][HandlerNext]_vars

\* a thread that has read the file and has not yet written it
InSequence(t) == h_pc[t] \in {"backup", "write"}

\* when every request is answered, no key a request reports as removed still
\* has an entry in the file
NoRemovalLost ==
    (\A t \in DOMAIN h_pc : h_pc[t] \in {"idle", "done"}) =>
        \A t \in DOMAIN h_pc :
            \A i \in 1..Len(h_ret[t].removed) :
                find_song_entry_bounds(h_file, h_ret[t].removed[i]) = None

\* C15: at most one handler thread at a time is between its read of a
\* songs.dta and its write of it, and no removal reported as done is lost.
C15_OneWriterPerFile ==
    /\ \A t, u \in DOMAIN h_pc :
          t # u => ~(InSequence(t) /\ InSequence(u))
    /\ NoRemovalLost

(***************************************************************************)
(* Claims about the fields patch_song_metadata replaces and inserts        *)
(***************************************************************************)
\* A field list for field_name at offset p of t: '(', the name with or
\* without quotes, whitespace, and one value (a double-quoted string, a
\* single-quoted symbol, or a bare token of characters that are neither
\* whitespace nor parentheses), then ')'.  The offset just past it, or -1.
FieldListEnd(t, p, field_name) ==
    IF ~(p < Len(t) /\ At(t, p) = LP) THEN -1
    ELSE LET i1 == SkipSpace(t, p + 1)
             i2 == IF At(t, i1) = SQ THEN i1 + 1 ELSE i1
             i4 == IF At(t, i2 + Len(field_name)) = SQ
                   THEN i2 + Len(field_name) + 1 ELSE i2 + Len(field_name)
             v == SkipSpace(t, i4)
             quotedEnds == {w \in (v + 1)..(Len(t) - 2) :
                              /\ At(t, v) \in {DQ, SQ}
                              /\ At(t, w) = At(t, v)
                              /\ \A j \in (v + 1)..(w - 1) : At(t, j) # At(t, v)
                              /\ At(t, w + 1) = RP}
             bareEnds == {w \in (v + 1)..(Len(t) - 1) :
                            /\ \A j \in v..(w - 1) :
                                  ~IsSpace(At(t, j)) /\ At(t, j) \notin {LP, RP}
                            /\ At(t, w) = RP}
         IN  IF KeyAt(t, i2, field_name) /\ v > i4
             THEN IF quotedEnds # {} THEN Min(quotedEnds) + 2
                  ELSE IF bareEnds # {} THEN Min(bareEnds) + 1
                  ELSE -1
             ELSE -1

\* what the patch of one field is to do to the entry text
ExpectedOne(acc, field) ==
    LET new_field_text == NewFieldText(field[1], field[2])
        hits == {p \in 0..(Len(acc.entry_text) - 1) :
                    FieldListEnd(acc.entry_text, p, field[1]) # -1}
        close == LastParen(acc.entry_text)
    IN  IF field[2].kind = "none" \/ field[2] = StrV(<<>>) THEN acc
        ELSE IF hits # {}
        THEN [acc EXCEPT
                !.entry_text =
                    Slice(acc.entry_text, 0, Min(hits)) \o new_field_text
                    \o Slice(acc.entry_text,
                             FieldListEnd(acc.entry_text, Min(hits), field[1]),
                             Len(acc.entry_text)),
                !.replaced = Append(acc.replaced, field[1])]
        ELSE [acc EXCEPT
                !.entry_text =
                    Slice(acc.entry_text, 0, close)
                    \o <<NL, SP, SP, SP>> \o new_field_text
                    \o Slice(acc.entry_text, close, Len(acc.entry_text)),
                !.inserted = Append(acc.inserted, field[1])]

RECURSIVE ExpectedLoop(_, _)
ExpectedLoop(acc, fields) ==
    IF fields = <<>> THEN acc
    ELSE ExpectedLoop(ExpectedOne(acc, Head(fields)), Tail(fields))

\* C20: a successful patch replaces, for every field given with a non-empty
\* value, the first field list of that name in the entry by the new field
\* text and records the name in patched, or, the entry holding none, inserts
\* the new field text just before the entry's closing parenthesis and
\* records the name in added; every such name is in exactly one of the two
\* lists, and a field with an empty value changes nothing.
C20_ReplaceOrInsert ==
    (pc = "idle" /\ last.kind = "patch" /\ last.ok /\ ret.status = "ok") =>
        LET bounds == find_song_entry_bounds(last.before, last.key)
            want == ExpectedLoop(
                        [entry_text |-> Slice(last.before, bounds[1], bounds[2]),
                         replaced |-> <<>>, inserted |-> <<>>], last.fields)
        IN  /\ last.after = Slice(last.before, 0, bounds[1]) \o want.entry_text
                              \o Slice(last.before, bounds[2], Len(last.before))
            /\ ret.patched = want.replaced
            /\ ret.added = want.inserted
            /\ \A n \in 1..Len(last.fields) :
                  CountIn(ret.patched, last.fields[n][1])
                      + CountIn(ret.added, last.fields[n][1])
                  = (IF last.fields[n][2].kind = "none"
                        \/ last.fields[n][2] = StrV(<<>>) THEN 0 ELSE 1)

\* a patch has returned without error
PatchedOk == pc = "idle" /\ last.kind = "patch" /\ last.ok /\ ret.status = "ok"

\* the names given with a value that is neither None nor ''
Targeted(fields) ==
    {fields[n][1] : n \in {m \in 1..Len(fields) :
                              fields[m][2].kind # "none" /\ fields[m][2] # StrV(<<>>)}}

\* the items of the first entry the parser reads in text[from..to)
ItemsIn(text, from, to) ==
    IF parse_top_level(Slice(text, from, to)).exprs = <<>> THEN <<>>
    ELSE parse_top_level(Slice(text, from, to)).exprs[1].val

\* C23: a successful patch leaves the text before and after the entry's span
\* as it was, leaves every field it was not given as it was, and leaves the
\* entry's parentheses balanced: the locator finds the entry again, from the
\* same start to the same distance from the end of the text.
C23_PatchFrame ==
    PatchedOk =>
        LET bounds == find_song_entry_bounds(last.before, last.key)
            grown == Len(last.after) - Len(last.before)
        IN  /\ Slice(last.after, 0, bounds[1]) = Slice(last.before, 0, bounds[1])
            /\ Slice(last.after, bounds[2] + grown, Len(last.after))
                  = Slice(last.before, bounds[2], Len(last.before))
            /\ find_song_entry_bounds(last.after, last.key) = <<bounds[1], bounds[2] + grown>>
            /\ \A f \in {<<"n">>, <<"y">>} \ Targeted(last.fields) :
                  get_field(ItemsIn(last.after, bounds[1], bounds[2] + grown), f)
                      = get_field(ItemsIn(last.before, bounds[1], bounds[2]), f)

\* what holds of the code: the text outside the located span is as it was
OutsideSpanKept ==
    PatchedOk =>
        LET bounds == find_song_entry_bounds(last.before, last.key)
            grown == Len(last.after) - Len(last.before)
        IN  /\ Slice(last.after, 0, bounds[1]) = Slice(last.before, 0, bounds[1])
            /\ Slice(last.after, bounds[2] + grown, Len(last.after))
                  = Slice(last.before, bounds[2], Len(last.before))

\* C29: after a successful patch, parsing the file again and reading a field
\* that was given with a non-empty value, in the entry whose song key is the
\* key, yields the value given: that Integer, or that very string.
C29_PatchedValueReadBack ==
    PatchedOk =>
        \A n \in 1..Len(last.fields) :
            last.fields[n][1] \in Targeted(last.fields) =>
                /\ EntriesWithKey(last.after, last.key) # <<>>
                /\ get_field(EntriesWithKey(last.after, last.key)[1].val, last.fields[n][1])
                      = last.fields[n][2]

====
